---- MODULE Spec2Model ----
(***************************************************************************)
(* A model of the shapefile-utils decoders: the geometry codec             *)
(* (Shape::parse), the file header codec (FileHeader::parse), the index    *)
(* table (ShxFile), the random-access reader (ShpFile::record), the        *)
(* sequential reader (ShpFile::parse_stream) and the facade over the three *)
(* files (Shapefile::record, Shapefile::iter).                             *)
(*                                                                         *)
(* Streams are sequences of bytes (0..255) with a read position.  An i32   *)
(* is an integer; an f64 is its IEEE-754 bit pattern, held as the tuple of *)
(* its 8 bytes with the most significant byte first, so that byte order on *)
(* the wire is something the decoders have to get right.                   *)
(***************************************************************************)
EXTENDS Integers, Sequences, FiniteSets, TLC

VARIABLES
    overflow_checks,  \* build profile: TRUE = arithmetic overflow panics (debug), FALSE = it wraps (release)
    gen,              \* the hand-built description the input bytes were written from
    input,            \* the bytes of the Cursor handed to Shape::parse
    pos,              \* the Cursor's position
    result,           \* what the last call returned
    prev,             \* the result of the call before the tag was replaced
    pc,               \* position of the driver
    shp_bytes,        \* the bytes of the main file on disk
    shx_bytes,        \* the bytes of the index file on disk
    shp_file,         \* ShpFile: the parsed header and the position of its file handle
    shx_file,         \* ShxFile: the parsed header and the position of its file handle
    stream_result,    \* what ShpFile::parse_stream returned for the main file, or where its loop stands
    dbf_file,         \* DbfFile: the rows of the attribute table
    iter              \* the live ShapefileRecordIterator: its id and the items it returned

vars == <<overflow_checks, gen, input, pos, result, prev, pc,
          shp_bytes, shx_bytes, shp_file, shx_file, stream_result, dbf_file, iter>>

file_vars == <<shp_bytes, shx_bytes, shp_file, shx_file, stream_result, dbf_file, iter>>

----------------------------------------------------------------------------
(* Bounds of the model *)

MaxParts == 2
MaxPoints == 2
MaxPatchCode == 6
MaxRecords == 2
MaxTrailing == 1

----------------------------------------------------------------------------
(* Generic helpers *)

Max(a, b) == IF a >= b THEN a ELSE b

Reverse(s) == [i \in 1..Len(s) |-> s[Len(s) + 1 - i]]

Take(s, n) == SubSeq(s, 1, n)

RECURSIVE Flatten(_)
Flatten(ss) == IF ss = <<>> THEN <<>> ELSE Head(ss) \o Flatten(Tail(ss))

----------------------------------------------------------------------------
(* usize / u64 arithmetic.  A 64-bit unsigned value is held as [k, v],     *)
(* standing for k * 2^61 + v, with v a small (possibly negative) integer.  *)
(* k = 0 is an ordinary small number; k = 8 with v < 0 is 2^64 + v, which  *)
(* is what a negative i32 becomes under `as usize` / `as u64`.             *)

U(n) == [k |-> 0, v |-> n]

as_usize(n) == IF n >= 0 THEN [k |-> 0, v |-> n] ELSE [k |-> 8, v |-> n]

\* c * a for a small constant c >= 2; ovf tells whether the true product exceeds 2^64 - 1
umul(c, a) ==
    IF a.k = 0
    THEN [val |-> [k |-> 0, v |-> c * a.v], ovf |-> FALSE]
    ELSE [val |-> [k |-> 8, v |-> c * a.v], ovf |-> TRUE]

\* a + b, for a and b with k in {0, 8}
uadd(a, b) ==
    IF a.k = 0 /\ b.k = 0
    THEN [val |-> [k |-> 0, v |-> a.v + b.v], ovf |-> FALSE]
    ELSE IF a.k = 8 /\ b.k = 8
    THEN [val |-> [k |-> 8, v |-> a.v + b.v], ovf |-> TRUE]
    ELSE IF a.v + b.v >= 0
    THEN [val |-> [k |-> 0, v |-> a.v + b.v], ovf |-> TRUE]
    ELSE [val |-> [k |-> 8, v |-> a.v + b.v], ovf |-> FALSE]

\* a - b for a small constant b; ovf tells whether the true difference is negative
usub(a, b) ==
    IF a.k = 0
    THEN IF a.v >= b
         THEN [val |-> [k |-> 0, v |-> a.v - b], ovf |-> FALSE]
         ELSE [val |-> [k |-> 8, v |-> a.v - b], ovf |-> TRUE]
    ELSE [val |-> [k |-> a.k, v |-> a.v - b], ovf |-> FALSE]

\* a / 8, rounded down: (8 * 2^61 + v) / 8 = 2^61 + v / 8
udiv8(a) == [k |-> a.k \div 8, v |-> a.v \div 8]

\* a < b and a > b on values with v small next to 2^61
ult(a, b) == a.k < b.k \/ (a.k = b.k /\ a.v < b.v)
ugt(a, b) == ult(b, a)

----------------------------------------------------------------------------
(* byteorder: fixed-width integers and floats from and to bytes *)

\* the two's-complement bytes of an i32, least significant first
I32Bytes(v) ==
    LET v1 == v \div 256
        v2 == v1 \div 256
        v3 == v2 \div 256
    IN  <<v % 256, v1 % 256, v2 % 256, v3 % 256>>

\* the i32 whose two's-complement bytes, least significant first, are b
I32Of(b) ==
    b[1] + 256 * b[2] + 65536 * b[3]
      + 16777216 * (IF b[4] >= 128 THEN b[4] - 256 ELSE b[4])

i32_from_LittleEndian(b) == I32Of(b)
i32_from_BigEndian(b) == I32Of(Reverse(b))

\* faulty variant: the bytes taken most significant first
f64_from_BigEndian(b) == b

f64_from_LittleEndian(b) == Reverse(b)

write_i32_LittleEndian(v) == I32Bytes(v)
write_i32_BigEndian(v) == Reverse(I32Bytes(v))
write_f64_LittleEndian(d) == Reverse(d)

\* Read::read_exact: n bytes at p, or UnexpectedEof with everything left consumed
read_exact(s, p, n) ==
    IF p + n <= Len(s)
    THEN [ok |-> TRUE, bytes |-> SubSeq(s, p + 1, p + n), pos |-> p + n]
    ELSE [ok |-> FALSE, bytes |-> <<>>, pos |-> Max(p, Len(s))]

read_i32_LittleEndian(s, p) ==
    LET from(r) ==
            [ok |-> r.ok, val |-> IF r.ok THEN i32_from_LittleEndian(r.bytes) ELSE 0,
             pos |-> r.pos]
    IN  from(read_exact(s, p, 4))

read_i32_BigEndian(s, p) ==
    LET from(r) ==
            [ok |-> r.ok, val |-> IF r.ok THEN i32_from_BigEndian(r.bytes) ELSE 0,
             pos |-> r.pos]
    IN  from(read_exact(s, p, 4))

read_f64_LittleEndian(s, p) ==
    LET from(r) ==
            [ok |-> r.ok, val |-> IF r.ok THEN f64_from_LittleEndian(r.bytes) ELSE <<>>,
             pos |-> r.pos]
    IN  from(read_exact(s, p, 8))

----------------------------------------------------------------------------
(* shape.rs: the geometry codec *)

STY_NULL_SHAPE == 0
STY_POINT == 1
STY_POLY_LINE == 3
STY_POLYGON == 5
STY_MULTI_POINT == 8
STY_POINT_Z == 11
STY_POLY_LINE_Z == 13
STY_POLYGON_Z == 15
STY_MULTI_POINT_Z == 18
STY_POINT_M == 21
STY_POLY_LINE_M == 23
STY_POLYGON_M == 25
STY_MULTI_POINT_M == 28
STY_MULTI_PATCH == 31

PTY_TRIANGLE_STRIP == 0
PTY_TRIANGLE_FAN == 1
PTY_OUTER_RING == 2
PTY_INNER_RING == 3
PTY_FIRST_RING == 4
PTY_RING == 5

F64Zero == <<0, 0, 0, 0, 0, 0, 0, 0>>

BoundingBox_new == [x_min |-> F64Zero, y_min |-> F64Zero, x_max |-> F64Zero, y_max |-> F64Zero]

Range_new == [min |-> F64Zero, max |-> F64Zero]

ShapeBaseData_new ==
    [bounding_box |-> BoundingBox_new, num_parts |-> 0, num_points |-> 0,
     parts |-> <<>>, part_types |-> <<>>, points |-> <<>>,
     z_range |-> Range_new, z |-> <<>>, m_range |-> Range_new, m |-> <<>>]

NullShape == [kind |-> "NullShape"]

\* a failed read (an Err) and an abort of the program (a panic)
Err(p) == [status |-> "err", pos |-> p]
Panic(p) == [status |-> "panic", pos |-> p]

\* BoundingBox::parse: four little-endian f64 in the order x_min, y_min, x_max, y_max
BoundingBox_parse(s, p) ==
    LET failed(r) == [ok |-> FALSE, val |-> BoundingBox_new, pos |-> r.pos]
        y_max(a, b, c, d) ==
            IF ~d.ok THEN failed(d)
            ELSE [ok |-> TRUE, pos |-> d.pos,
                  val |-> [x_min |-> a.val, y_min |-> b.val, x_max |-> c.val, y_max |-> d.val]]
        x_max(a, b, c) ==
            IF ~c.ok THEN failed(c) ELSE y_max(a, b, c, read_f64_LittleEndian(s, c.pos))
        y_min(a, b) ==
            IF ~b.ok THEN failed(b) ELSE x_max(a, b, read_f64_LittleEndian(s, b.pos))
        x_min(a) ==
            IF ~a.ok THEN failed(a) ELSE y_min(a, read_f64_LittleEndian(s, a.pos))
    IN  x_min(read_f64_LittleEndian(s, p))

\* Point::parse: x then y
Point_parse(s, p) ==
    LET failed(r) == [ok |-> FALSE, val |-> <<>>, pos |-> r.pos]
        y(a, b) ==
            IF ~b.ok THEN failed(b)
            ELSE [ok |-> TRUE, val |-> [x |-> a.val, y |-> b.val], pos |-> b.pos]
        x(a) == IF ~a.ok THEN failed(a) ELSE y(a, read_f64_LittleEndian(s, a.pos))
    IN  x(read_f64_LittleEndian(s, p))

\* the element readers handed to parse_array
read_function(f, s, p) ==
    CASE f = "read_i32" -> read_i32_LittleEndian(s, p)
      [] f = "read_f64" -> read_f64_LittleEndian(s, p)
      [] f = "Point::parse" -> Point_parse(s, p)

\* Shape::parse_array: n elements pushed one by one, the first failed read ends it.
\* n is a usize; a count of 2^64 + v cannot be served by a finite stream.
RECURSIVE parse_array(_, _, _, _)
parse_array(s, p, n, f) ==
    IF n.k = 0 /\ n.v = 0
    THEN [ok |-> TRUE, val |-> <<>>, pos |-> p]
    ELSE LET push(r, rest) ==
                 [ok |-> rest.ok, pos |-> rest.pos,
                  val |-> IF rest.ok THEN <<r.val>> \o rest.val ELSE <<>>]
             element(r) ==
                 IF ~r.ok
                 THEN [ok |-> FALSE, val |-> <<>>, pos |-> r.pos]
                 ELSE push(r, parse_array(s, r.pos, [n EXCEPT !.v = @ - 1], f))
         IN  element(read_function(f, s, p))

parse_i32_array(s, p, n) == parse_array(s, p, n, "read_i32")
parse_point_array(s, p, n) == parse_array(s, p, n, "Point::parse")
parse_f64_array(s, p, n) == parse_array(s, p, n, "read_f64")

\* faulty variant: PointZ read in the order x, y, m, z
parse_point_type_MBeforeZ(s, p, shape_type) ==
    LET Point(v) ==
            IF ~v.ok THEN Err(v.pos)
            ELSE [status |-> "ok", pos |-> v.pos, length |-> U(16),
                  shape |-> [kind |-> "Point", point |-> [x |-> v.val[1], y |-> v.val[2]]]]
        PointM(v) ==
            IF ~v.ok THEN Err(v.pos)
            ELSE [status |-> "ok", pos |-> v.pos, length |-> U(24),
                  shape |-> [kind |-> "PointM",
                             point |-> [x |-> v.val[1], y |-> v.val[2], m |-> v.val[3]]]]
        PointZ(v) ==
            IF ~v.ok THEN Err(v.pos)
            ELSE [status |-> "ok", pos |-> v.pos, length |-> U(32),
                  shape |-> [kind |-> "PointZ",
                             point |-> [x |-> v.val[1], y |-> v.val[2],
                                        z |-> v.val[4], m |-> v.val[3]]]]
    IN  IF shape_type = STY_POINT THEN Point(parse_f64_array(s, p, U(2)))
        ELSE IF shape_type = STY_POINT_M THEN PointM(parse_f64_array(s, p, U(3)))
        ELSE IF shape_type = STY_POINT_Z THEN PointZ(parse_f64_array(s, p, U(4)))
        ELSE Err(p)

\* Shape::parse_point_type of shape.rs: the shape and the size of its coordinates
parse_point_type(s, p, shape_type) ==
    LET Point(v) ==
            IF ~v.ok THEN Err(v.pos)
            ELSE [status |-> "ok", pos |-> v.pos, length |-> U(16),
                  shape |-> [kind |-> "Point", point |-> [x |-> v.val[1], y |-> v.val[2]]]]
        PointM(v) ==
            IF ~v.ok THEN Err(v.pos)
            ELSE [status |-> "ok", pos |-> v.pos, length |-> U(24),
                  shape |-> [kind |-> "PointM",
                             point |-> [x |-> v.val[1], y |-> v.val[2], m |-> v.val[3]]]]
        PointZ(v) ==
            IF ~v.ok THEN Err(v.pos)
            ELSE [status |-> "ok", pos |-> v.pos, length |-> U(32),
                  shape |-> [kind |-> "PointZ",
                             point |-> [x |-> v.val[1], y |-> v.val[2],
                                        z |-> v.val[3], m |-> v.val[4]]]]
    IN  IF shape_type = STY_POINT THEN Point(parse_f64_array(s, p, U(2)))
        ELSE IF shape_type = STY_POINT_M THEN PointM(parse_f64_array(s, p, U(3)))
        ELSE IF shape_type = STY_POINT_Z THEN PointZ(parse_f64_array(s, p, U(4)))
        ELSE Err(p)

\* Shape::get_patch_type_from_id: "None" stands for Option::None
get_patch_type_from_id(id) ==
    CASE id = PTY_TRIANGLE_STRIP -> "TriangleStrip"
      [] id = PTY_TRIANGLE_FAN -> "TriangleFan"
      [] id = PTY_INNER_RING -> "InnerRing"
      [] id = PTY_OUTER_RING -> "OuterRing"
      [] id = PTY_FIRST_RING -> "FirstRing"
      [] id = PTY_RING -> "Ring"
      [] OTHER -> "None"

\* Shape::parse_f64_range_and_array: min, max, then n values
parse_f64_range_and_array(s, p, n) ==
    LET failed(r) == [ok |-> FALSE, pos |-> r.pos, range |-> Range_new, arr |-> <<>>]
        array(v, arr) ==
            IF ~arr.ok THEN failed(arr)
            ELSE [ok |-> TRUE, pos |-> arr.pos,
                  range |-> [min |-> v.val[1], max |-> v.val[2]], arr |-> arr.val]
        range(v) == IF ~v.ok THEN failed(v) ELSE array(v, parse_f64_array(s, v.pos, n))
    IN  range(parse_f64_array(s, p, U(2)))

\* Shape::shape_from_base_data: the variant of the tag, with the fields it keeps
shape_from_base_data(shape_type, base) ==
    CASE shape_type = STY_POLY_LINE ->
           [kind |-> "PolyLine", bounding_box |-> base.bounding_box,
            parts |-> base.parts, points |-> base.points]
      [] shape_type = STY_POLY_LINE_M ->
           [kind |-> "PolyLineM", bounding_box |-> base.bounding_box,
            parts |-> base.parts, points |-> base.points,
            m_range |-> base.m_range, m |-> base.m]
      [] shape_type = STY_POLY_LINE_Z ->
           [kind |-> "PolyLineZ", bounding_box |-> base.bounding_box,
            parts |-> base.parts, points |-> base.points,
            z |-> base.z, z_range |-> base.z_range,
            m_range |-> base.m_range, m |-> base.m]
      [] shape_type = STY_POLYGON ->
           [kind |-> "Polygon", bounding_box |-> base.bounding_box,
            parts |-> base.parts, points |-> base.points]
      [] shape_type = STY_POLYGON_M ->
           [kind |-> "PolygonM", bounding_box |-> base.bounding_box,
            parts |-> base.parts, points |-> base.points,
            m_range |-> base.m_range, m |-> base.m]
      [] shape_type = STY_POLYGON_Z ->
           [kind |-> "PolygonZ", bounding_box |-> base.bounding_box,
            parts |-> base.parts, points |-> base.points,
            z_range |-> base.z_range, z |-> base.z,
            m_range |-> base.m_range, m |-> base.m]
      [] shape_type = STY_MULTI_POINT ->
           [kind |-> "MultiPoint", bounding_box |-> base.bounding_box,
            points |-> base.points]
      [] shape_type = STY_MULTI_POINT_M ->
           [kind |-> "MultiPointM", bounding_box |-> base.bounding_box,
            points |-> base.points, m_range |-> base.m_range, m |-> base.m]
      [] shape_type = STY_MULTI_POINT_Z ->
           [kind |-> "MultiPointZ", bounding_box |-> base.bounding_box,
            points |-> base.points, z_range |-> base.z_range, z |-> base.z,
            m_range |-> base.m_range, m |-> base.m]
      [] shape_type = STY_MULTI_PATCH ->
           [kind |-> "MultiPatch", bounding_box |-> base.bounding_box,
            parts |-> base.parts, part_types |-> base.part_types,
            points |-> base.points, z_range |-> base.z_range, z |-> base.z,
            m_range |-> base.m_range, m |-> base.m]
      [] shape_type = STY_NULL_SHAPE -> NullShape
      [] OTHER -> NullShape

IsPointType(shape_type) == shape_type \in {STY_POINT, STY_POINT_M, STY_POINT_Z}

HasParts(shape_type) ==
    shape_type \in {STY_POLY_LINE, STY_POLYGON, STY_POLY_LINE_M, STY_POLYGON_M,
                    STY_POLY_LINE_Z, STY_POLYGON_Z, STY_MULTI_PATCH}

IsMultiPointType(shape_type) ==
    shape_type \in {STY_MULTI_POINT, STY_MULTI_POINT_M, STY_MULTI_POINT_Z}

HasZ(shape_type) ==
    shape_type \in {STY_POLY_LINE_Z, STY_POLYGON_Z, STY_MULTI_POINT_Z, STY_MULTI_PATCH}

HasMOnly(shape_type) ==
    shape_type \in {STY_POLY_LINE_M, STY_POLYGON_M, STY_MULTI_POINT_M}

\* the state of a decode in progress: continue with F only while nothing failed
Then(st, F(_)) == IF st.status = "ok" THEN F(st) ELSE st

\* `length += c * n as usize`: with overflow checks an overflowing product or
\* sum aborts, without them both wrap
AddLength(st, c, n, oc) ==
    LET sum(m, a) ==
            IF oc /\ (m.ovf \/ a.ovf) THEN Panic(st.pos) ELSE [st EXCEPT !.length = a.val]
        product(m) == sum(m, uadd(st.length, m.val))
    IN  product(umul(c, as_usize(n)))

\* `length += k` for a constant k
AddConst(st, k, oc) ==
    LET sum(a) == IF oc /\ a.ovf THEN Panic(st.pos) ELSE [st EXCEPT !.length = a.val]
    IN  sum(uadd(st.length, U(k)))

ReadBoundingBox(s, st) ==
    LET store(r) ==
            IF ~r.ok THEN Err(r.pos)
            ELSE [st EXCEPT !.pos = r.pos, !.base.bounding_box = r.val]
    IN  store(BoundingBox_parse(s, st.pos))

ReadNumParts(s, st) ==
    LET store(r) ==
            IF ~r.ok THEN Err(r.pos) ELSE [st EXCEPT !.pos = r.pos, !.base.num_parts = r.val]
    IN  store(read_i32_LittleEndian(s, st.pos))

ReadNumPoints(s, st) ==
    LET store(r) ==
            IF ~r.ok THEN Err(r.pos) ELSE [st EXCEPT !.pos = r.pos, !.base.num_points = r.val]
    IN  store(read_i32_LittleEndian(s, st.pos))

\* faulty variant: the part array read with the point count
ReadParts_PointCount(s, st) ==
    LET store(r) ==
            IF ~r.ok THEN Err(r.pos) ELSE [st EXCEPT !.pos = r.pos, !.base.parts = r.val]
    IN  store(parse_i32_array(s, st.pos, as_usize(st.base.num_points)))

ReadParts(s, st) ==
    LET store(r) ==
            IF ~r.ok THEN Err(r.pos) ELSE [st EXCEPT !.pos = r.pos, !.base.parts = r.val]
    IN  store(parse_i32_array(s, st.pos, as_usize(st.base.num_parts)))

\* the patch type codes of a MultiPatch; unwrap() of a None aborts
ReadPartTypes(s, st, oc) ==
    LET unwrap(st1, types) ==
            IF st1.status # "ok" THEN st1
            ELSE IF \E i \in 1..Len(types) : types[i] = "None" THEN Panic(st1.pos)
            ELSE [st1 EXCEPT !.base.part_types = types]
        store(r) ==
            IF ~r.ok THEN Err(r.pos)
            ELSE unwrap(AddLength([st EXCEPT !.pos = r.pos], 4, st.base.num_parts, oc),
                        [i \in 1..Len(r.val) |-> get_patch_type_from_id(r.val[i])])
    IN  store(parse_i32_array(s, st.pos, as_usize(st.base.num_parts)))

\* faulty variant: a failed read leaves the points empty and the decode goes on
ReadPoints_KeepRead(s, st) ==
    LET store(r) == [st EXCEPT !.pos = r.pos, !.base.points = r.val]
    IN  store(parse_point_array(s, st.pos, as_usize(st.base.num_points)))

ReadPoints(s, st) ==
    LET store(r) ==
            IF ~r.ok THEN Err(r.pos) ELSE [st EXCEPT !.pos = r.pos, !.base.points = r.val]
    IN  store(parse_point_array(s, st.pos, as_usize(st.base.num_points)))

\* faulty variant: the arm of the multipoint types catches every other tag as well
ParseBaseData_CatchAll(s, st0, shape_type, oc) ==
    IF HasParts(shape_type)
    THEN Then(Then(Then(Then(Then(Then(Then(Then(
             AddConst(st0, 40, oc),
             LAMBDA t : ReadBoundingBox(s, t)),
             LAMBDA t : ReadNumParts(s, t)),
             LAMBDA t : ReadNumPoints(s, t)),
             LAMBDA t : AddLength(t, 4, t.base.num_parts, oc)),
             LAMBDA t : ReadParts(s, t)),
             LAMBDA t : IF shape_type = STY_MULTI_PATCH THEN ReadPartTypes(s, t, oc) ELSE t),
             LAMBDA t : AddLength(t, 16, t.base.num_points, oc)),
             LAMBDA t : ReadPoints(s, t))
    ELSE Then(Then(Then(Then(
             AddConst(st0, 36, oc),
             LAMBDA t : ReadBoundingBox(s, t)),
             LAMBDA t : ReadNumPoints(s, t)),
             LAMBDA t : AddLength(t, 16, t.base.num_points, oc)),
             LAMBDA t : ReadPoints(s, t))

\* shape.rs 519-555: bounding box, counts, parts, patch types and points
ParseBaseData(s, st0, shape_type, oc) ==
    IF HasParts(shape_type)
    THEN Then(Then(Then(Then(Then(Then(Then(Then(
             AddConst(st0, 40, oc),
             LAMBDA t : ReadBoundingBox(s, t)),
             LAMBDA t : ReadNumParts(s, t)),
             LAMBDA t : ReadNumPoints(s, t)),
             LAMBDA t : AddLength(t, 4, t.base.num_parts, oc)),
             LAMBDA t : ReadParts(s, t)),
             LAMBDA t : IF shape_type = STY_MULTI_PATCH THEN ReadPartTypes(s, t, oc) ELSE t),
             LAMBDA t : AddLength(t, 16, t.base.num_points, oc)),
             LAMBDA t : ReadPoints(s, t))
    ELSE IF IsMultiPointType(shape_type)
    THEN Then(Then(Then(Then(
             AddConst(st0, 36, oc),
             LAMBDA t : ReadBoundingBox(s, t)),
             LAMBDA t : ReadNumPoints(s, t)),
             LAMBDA t : AddLength(t, 16, t.base.num_points, oc)),
             LAMBDA t : ReadPoints(s, t))
    ELSE st0

\* faulty variant: the Z and M blocks counted as one block
ReadZM_OneBlock(s, st, oc) ==
    LET total(st1, m, a, b) ==
            IF oc /\ (m.ovf \/ a.ovf \/ b.ovf) THEN Panic(st1.pos)
            ELSE [st1 EXCEPT !.length = b.val]
        sum(st1, m, a) == total(st1, m, a, uadd(st1.length, a.val))
        product(st1, m) == sum(st1, m, uadd(U(16), m.val))
        store(zr, mr) ==
            IF ~mr.ok THEN Err(mr.pos)
            ELSE product([st EXCEPT !.pos = mr.pos,
                                    !.base.z_range = zr.range, !.base.z = zr.arr,
                                    !.base.m_range = mr.range, !.base.m = mr.arr],
                         umul(8, as_usize(st.base.num_points)))
        z_block(zr) ==
            IF ~zr.ok THEN Err(zr.pos)
            ELSE store(zr, parse_f64_range_and_array(s, zr.pos, as_usize(st.base.num_points)))
    IN  z_block(parse_f64_range_and_array(s, st.pos, as_usize(st.base.num_points)))

\* faulty variant: the first block is taken for the M values, the second for Z
ReadZM_MBeforeZ(s, st, oc) ==
    LET total(st1, m, a, b) ==
            IF oc /\ (m.ovf \/ a.ovf \/ b.ovf) THEN Panic(st1.pos)
            ELSE [st1 EXCEPT !.length = b.val]
        sum(st1, m, a) == total(st1, m, a, uadd(st1.length, a.val))
        product(st1, m) == sum(st1, m, uadd(U(32), m.val))
        store(mr, zr) ==
            IF ~zr.ok THEN Err(zr.pos)
            ELSE product([st EXCEPT !.pos = zr.pos,
                                    !.base.z_range = zr.range, !.base.z = zr.arr,
                                    !.base.m_range = mr.range, !.base.m = mr.arr],
                         umul(16, as_usize(st.base.num_points)))
        m_block(mr) ==
            IF ~mr.ok THEN Err(mr.pos)
            ELSE store(mr, parse_f64_range_and_array(s, mr.pos, as_usize(st.base.num_points)))
    IN  m_block(parse_f64_range_and_array(s, st.pos, as_usize(st.base.num_points)))

\* shape.rs 562-568: Z range and values, then M range and values
ReadZM(s, st, oc) ==
    LET total(st1, m, a, b) ==
            IF oc /\ (m.ovf \/ a.ovf \/ b.ovf) THEN Panic(st1.pos)
            ELSE [st1 EXCEPT !.length = b.val]
        sum(st1, m, a) == total(st1, m, a, uadd(st1.length, a.val))
        product(st1, m) == sum(st1, m, uadd(U(32), m.val))
        store(zr, mr) ==
            IF ~mr.ok THEN Err(mr.pos)
            ELSE product([st EXCEPT !.pos = mr.pos,
                                    !.base.z_range = zr.range, !.base.z = zr.arr,
                                    !.base.m_range = mr.range, !.base.m = mr.arr],
                         umul(16, as_usize(st.base.num_points)))
        z_block(zr) ==
            IF ~zr.ok THEN Err(zr.pos)
            ELSE store(zr, parse_f64_range_and_array(s, zr.pos, as_usize(st.base.num_points)))
    IN  z_block(parse_f64_range_and_array(s, st.pos, as_usize(st.base.num_points)))

\* shape.rs 573-576: M range and values only
ReadM(s, st, oc) ==
    LET total(st1, m, a, b) ==
            IF oc /\ (m.ovf \/ a.ovf \/ b.ovf) THEN Panic(st1.pos)
            ELSE [st1 EXCEPT !.length = b.val]
        sum(st1, m, a) == total(st1, m, a, uadd(st1.length, a.val))
        product(st1, m) == sum(st1, m, uadd(U(16), m.val))
        store(mr) ==
            IF ~mr.ok THEN Err(mr.pos)
            ELSE product([st EXCEPT !.pos = mr.pos,
                                    !.base.m_range = mr.range, !.base.m = mr.arr],
                         umul(8, as_usize(st.base.num_points)))
    IN  store(parse_f64_range_and_array(s, st.pos, as_usize(st.base.num_points)))

\* faulty variant: PolygonM missing from the arm of the M types
ParseZM_NoPolygonM(s, st, shape_type, oc) ==
    IF HasZ(shape_type) THEN ReadZM(s, st, oc)
    ELSE IF shape_type \in {STY_POLY_LINE_M, STY_MULTI_POINT_M} THEN ReadM(s, st, oc)
    ELSE st

\* shape.rs 557-579
ParseZM(s, st, shape_type, oc) ==
    IF HasZ(shape_type) THEN ReadZM(s, st, oc)
    ELSE IF HasMOnly(shape_type) THEN ReadM(s, st, oc)
    ELSE st

\* shape.rs 516-581: everything after the point types have returned
ParseNonPoint(s, p, shape_type, oc) ==
    LET st0 == [status |-> "ok", pos |-> p, length |-> U(4), base |-> ShapeBaseData_new]
        Ok(st) ==
            IF st.status # "ok" THEN st
            ELSE [status |-> "ok", pos |-> st.pos, length |-> st.length,
                  shape |-> shape_from_base_data(shape_type, st.base)]
    IN  Ok(Then(ParseBaseData(s, st0, shape_type, oc),
                LAMBDA t : ParseZM(s, t, shape_type, oc)))

\* Shape::parse of shape.rs: (shape, length) or an Err, or a panic.
\* s is the stream, p its position, oc the build's overflow checks.
Shape_parse(s, p, oc) ==
    LET shape_type == read_i32_LittleEndian(s, p)
        Ok(r) == IF r.status # "ok" THEN r ELSE [r EXCEPT !.length = uadd(r.length, U(4)).val]
    IN  IF ~shape_type.ok THEN Err(shape_type.pos)
        ELSE IF IsPointType(shape_type.val)
        THEN Ok(parse_point_type(s, shape_type.pos, shape_type.val))
        ELSE ParseNonPoint(s, shape_type.pos, shape_type.val, oc)

\* Shape::parse of shpfile.rs and filetypes/shpfile.rs: the point types return
\* what parse_point_type returned
Shape_parse_shpfile(s, p, oc) ==
    LET shape_type == read_i32_LittleEndian(s, p)
    IN  IF ~shape_type.ok THEN Err(shape_type.pos)
        ELSE IF IsPointType(shape_type.val)
        THEN parse_point_type(s, shape_type.pos, shape_type.val)
        ELSE ParseNonPoint(s, shape_type.pos, shape_type.val, oc)

----------------------------------------------------------------------------
(* shape.rs, mod tests: the helpers that write a payload, and the payloads *)

write_box(bounding_box) ==
    write_f64_LittleEndian(bounding_box.x_min) \o write_f64_LittleEndian(bounding_box.y_min)
      \o write_f64_LittleEndian(bounding_box.x_max) \o write_f64_LittleEndian(bounding_box.y_max)

write_point_vec(points) ==
    Flatten([i \in 1..Len(points) |->
                write_f64_LittleEndian(points[i].x) \o write_f64_LittleEndian(points[i].y)])

write_i32_vec(v) == Flatten([i \in 1..Len(v) |-> write_i32_LittleEndian(v[i])])

write_f64_vec(v) == Flatten([i \in 1..Len(v) |-> write_f64_LittleEndian(v[i])])

\* the complete payload of a description g, laid out as the tests lay it out
Payload(g) ==
    write_i32_LittleEndian(g.tag)
      \o (IF IsPointType(g.tag) THEN write_f64_vec(g.point)
          ELSE IF HasParts(g.tag)
          THEN write_box(g.bounding_box)
                 \o write_i32_LittleEndian(g.num_parts) \o write_i32_LittleEndian(g.num_points)
                 \o write_i32_vec(g.parts)
                 \o (IF g.tag = STY_MULTI_PATCH THEN write_i32_vec(g.part_types) ELSE <<>>)
                 \o write_point_vec(g.points)
          ELSE IF IsMultiPointType(g.tag)
          THEN write_box(g.bounding_box) \o write_i32_LittleEndian(g.num_points)
                 \o write_point_vec(g.points)
          ELSE <<>>)
      \o (IF HasZ(g.tag)
          THEN write_f64_vec(g.z_range) \o write_f64_vec(g.z)
                 \o write_f64_vec(g.m_range) \o write_f64_vec(g.m)
          ELSE IF HasMOnly(g.tag)
          THEN write_f64_vec(g.m_range) \o write_f64_vec(g.m)
          ELSE <<>>)

\* the bytes handed to the decoder: the payload without its last g.drop bytes,
\* followed by g.extra
Bytes(g) ==
    LET full == Payload(g)
    IN  Take(full, Len(full) - g.drop) \o g.extra

\* f64 bit patterns, all different, none a palindrome of bytes
D(i) == <<64, i, 0, 0, 0, 0, 0, 200 - i>>

\* the values of test_parse_multipoint
F64_1_0 == <<63, 240, 0, 0, 0, 0, 0, 0>>
F64_2_0 == <<64, 0, 0, 0, 0, 0, 0, 0>>
F64_5_0 == <<64, 20, 0, 0, 0, 0, 0, 0>>
F64_0_25 == <<63, 208, 0, 0, 0, 0, 0, 0>>
F64_0_125 == <<63, 192, 0, 0, 0, 0, 0, 0>>
F64_m0_25 == <<191, 208, 0, 0, 0, 0, 0, 0>>
F64_m0_125 == <<191, 192, 0, 0, 0, 0, 0, 0>>

TestBox == [x_min |-> F64_m0_25, y_min |-> F64_m0_125, x_max |-> F64_0_25, y_max |-> F64_0_125]

TestPoints == <<[x |-> F64_1_0, y |-> F64_1_0], [x |-> F64_2_0, y |-> F64_2_0],
                [x |-> F64_5_0, y |-> F64_5_0]>>

GenBox == [x_min |-> D(1), y_min |-> D(2), x_max |-> D(3), y_max |-> D(4)]

GenPoints(n) == [i \in 1..n |-> [x |-> D(10 + 2 * i), y |-> D(11 + 2 * i)]]

Tags ==
    {STY_NULL_SHAPE, STY_POINT, STY_POLY_LINE, STY_POLYGON, STY_MULTI_POINT,
     STY_POINT_Z, STY_POLY_LINE_Z, STY_POLYGON_Z, STY_MULTI_POINT_Z, STY_POINT_M,
     STY_POLY_LINE_M, STY_POLYGON_M, STY_MULTI_POINT_M, STY_MULTI_PATCH}

\* tags that are no shape type; 259 and 287 have the low byte of PolyLine and MultiPatch
UnknownTags == {2, 32, -1, 259, 287}

\* trailing bytes that do not belong to the payload
Garbage == <<8, 0, 0, 0, 1, 2, 3, 4, 5, 6, 7, 8, 9>>

\* the declared counts: the bounded ones and a negative one
Counts(max) == (0..max) \cup {-1}

\* the part start indices tried for p parts: ascending from 0, and descending
PartsOf(p) == {[i \in 1..p |-> i - 1], [i \in 1..p |-> p - i]}

\* the patch type codes tried for p parts
PartTypesOf(tag, p) ==
    IF tag = STY_MULTI_PATCH THEN [1..p -> 0..MaxPatchCode] ELSE {<<>>}

\* a description with num_parts = p and num_points = n declared
GenOf(tag, p, n, parts, part_types, drop, extra) ==
    [tag |-> tag, bounding_box |-> GenBox,
     num_parts |-> p, num_points |-> n,
     parts |-> parts, part_types |-> part_types,
     points |-> GenPoints(Max(n, 0)),
     z_range |-> <<D(40), D(41)>>, z |-> [i \in 1..Max(n, 0) |-> D(50 + i)],
     m_range |-> <<D(60), D(61)>>, m |-> [i \in 1..Max(n, 0) |-> D(70 + i)],
     point |-> IF tag = STY_POINT THEN <<D(1), D(2)>>
               ELSE IF tag = STY_POINT_M THEN <<D(1), D(2), D(4)>>
               ELSE IF tag = STY_POINT_Z THEN <<D(1), D(2), D(3), D(4)>>
               ELSE <<>>,
     drop |-> drop, extra |-> extra]

\* test_parse_multipoint
GenTestMultiPoint ==
    [GenOf(STY_MULTI_POINT, 0, 3, <<>>, <<>>, 0, <<>>)
        EXCEPT !.bounding_box = TestBox, !.points = TestPoints]

\* how an input is damaged: complete, complete with trailing bytes, cut short,
\* and for the Z types cut behind the Z values (the M range and values missing)
Damage(g) ==
    LET len == Len(Payload(g))
    IN  {[g EXCEPT !.drop = 0], [g EXCEPT !.extra = Garbage],
         [g EXCEPT !.drop = 1], [g EXCEPT !.drop = len \div 2]}
          \cup (IF HasZ(g.tag) THEN {[g EXCEPT !.drop = 16 + 8 * Len(g.m)]} ELSE {})

\* the descriptions tried: g is one of them
Gens(g) ==
    \/ \E tag \in {t \in Tags \cup UnknownTags : ~HasParts(t) /\ ~IsMultiPointType(t)} :
           g \in Damage(GenOf(tag, 0, 0, <<>>, <<>>, 0, <<>>))
    \/ \E tag \in {t \in Tags : IsMultiPointType(t)}, n \in Counts(MaxPoints) :
           g \in Damage(GenOf(tag, 0, n, <<>>, <<>>, 0, <<>>))
    \/ \E tag \in {t \in Tags : HasParts(t)}, p \in Counts(MaxParts), n \in Counts(MaxPoints) :
           \E parts \in PartsOf(Max(p, 0)), part_types \in PartTypesOf(tag, Max(p, 0)) :
               g \in Damage(GenOf(tag, p, n, parts, part_types, 0, <<>>))
    \/ g \in Damage(GenTestMultiPoint)

----------------------------------------------------------------------------
(* The decoding of one hand-built payload, as the tests of shape.rs do it *)

None == [status |-> "none"]

\* the other tag of a PolyLine / Polygon pair
PairTag(tag) ==
    CASE tag = STY_POLY_LINE -> STY_POLYGON
      [] tag = STY_POLY_LINE_M -> STY_POLYGON_M
      [] tag = STY_POLY_LINE_Z -> STY_POLYGON_Z
      [] tag = STY_POLYGON -> STY_POLY_LINE
      [] tag = STY_POLYGON_M -> STY_POLY_LINE_M
      [] tag = STY_POLYGON_Z -> STY_POLY_LINE_Z
      [] OTHER -> tag

InitShape ==
    /\ overflow_checks \in BOOLEAN
    /\ Gens(gen)
    /\ input = Bytes(gen)
    /\ pos = 0
    /\ result = None
    /\ prev = None
    /\ pc = "ready"
    /\ shp_bytes = <<>>
    /\ shx_bytes = <<>>
    /\ shp_file = None
    /\ shx_file = None
    /\ stream_result = None
    /\ dbf_file = None
    /\ iter = None

\* Shape::parse(&mut Cursor::new(input))
Parse ==
    /\ pc = "ready"
    /\ result' = Shape_parse(input, pos, overflow_checks)
    /\ pos' = result'.pos
    /\ pc' = "parsed"
    /\ UNCHANGED <<overflow_checks, gen, input, prev>>
    /\ UNCHANGED file_vars

\* test_parse_polygon_polyline: the same bytes behind the other tag of the pair
Retag ==
    /\ pc = "parsed"
    /\ prev = None
    /\ result.status # "panic"
    /\ Len(input) >= 4
    /\ PairTag(gen.tag) # gen.tag
    /\ input' = write_i32_LittleEndian(PairTag(gen.tag)) \o SubSeq(input, 5, Len(input))
    /\ pos' = 0
    /\ prev' = result
    /\ result' = None
    /\ pc' = "ready"
    /\ UNCHANGED <<overflow_checks, gen>>
    /\ UNCHANGED file_vars


----------------------------------------------------------------------------
(* Properties of the geometry codec, checked under SpecShape *)

\* the tag the input carries now
CurTag == IF prev = None THEN gen.tag ELSE PairTag(gen.tag)

Parsed == pc = "parsed"

Returned == pc = "parsed" /\ result.status = "ok"

\* the payload was handed over whole (trailing bytes may follow it)
Complete == gen.drop = 0

ValidPatchTypes == \A i \in 1..Len(gen.part_types) : gen.part_types[i] \in 0..5

\* the size of the payload that declares p parts and n points behind tag
ExpectedLength(tag, p, n) ==
    4 + 32
      + (IF HasParts(tag) THEN 8 ELSE 4)
      + (IF HasParts(tag) THEN 4 * p ELSE 0)
      + (IF tag = STY_MULTI_PATCH THEN 4 * p ELSE 0)
      + 16 * n
      + (IF HasZ(tag) THEN 16 + 8 * n ELSE 0)
      + (IF HasZ(tag) \/ HasMOnly(tag) THEN 16 + 8 * n ELSE 0)

\* C2: for the ten tags with a bounding box, a complete payload with declared
\* counts p >= 0 and n >= 0 is decoded, and the length returned is the number
\* of bytes read from the stream: 4 + 32 + 8 or 4 + 4p (+ 4p for MultiPatch)
\* + 16n + (16 + 8n) per Z and M block.
C2_LengthIsBytesRead ==
    (Parsed /\ (HasParts(CurTag) \/ IsMultiPointType(CurTag)))
        => /\ (Complete /\ gen.num_parts >= 0 /\ gen.num_points >= 0 /\ ValidPatchTypes)
                => result.status = "ok"
           /\ result.status = "ok"
                => /\ gen.num_parts >= 0 /\ gen.num_points >= 0
                   /\ result.length = U(pos)
                   /\ result.length = U(ExpectedLength(CurTag, gen.num_parts, gen.num_points))

C2_Witness ==
    Returned /\ CurTag = STY_MULTI_PATCH /\ gen.num_parts = 2 /\ gen.num_points = 1

\* C3: Shape::parse returns length 4 for a NullShape, 20 for a Point, 28 for a
\* PointM and 36 for a PointZ, and the fields are the little-endian f64 of the
\* wire in the order x, y, z, m.
C3_PointLengths ==
    (Parsed /\ Complete)
        => /\ gen.tag = STY_NULL_SHAPE
                => result.status = "ok" /\ result.shape = NullShape /\ result.length = U(4)
           /\ gen.tag = STY_POINT
                => /\ result.status = "ok" /\ result.length = U(20)
                   /\ result.shape = [kind |-> "Point",
                                      point |-> [x |-> gen.point[1], y |-> gen.point[2]]]
           /\ gen.tag = STY_POINT_M
                => /\ result.status = "ok" /\ result.length = U(28)
                   /\ result.shape = [kind |-> "PointM",
                                      point |-> [x |-> gen.point[1], y |-> gen.point[2],
                                                 m |-> gen.point[3]]]
           /\ gen.tag = STY_POINT_Z
                => /\ result.status = "ok" /\ result.length = U(36)
                   /\ result.shape = [kind |-> "PointZ",
                                      point |-> [x |-> gen.point[1], y |-> gen.point[2],
                                                 z |-> gen.point[3], m |-> gen.point[4]]]

C3_Witness == Returned /\ gen.tag = STY_POINT_Z /\ result.length = U(36)

TestMultiPointDecoded ==
    /\ result.status = "ok"
    /\ result.shape = [kind |-> "MultiPoint", bounding_box |-> TestBox, points |-> TestPoints]

\* C4 as stated: the MultiPoint payload with the box (-0.25, -0.125, 0.25, 0.125)
\* and the points (1,1), (2,2), (5,5) decodes to these fields with length 40.
C4_Original ==
    (Parsed /\ gen = GenTestMultiPoint)
        => TestMultiPointDecoded /\ result.length = U(40)

\* C4 as amended: that payload decodes to exactly these fields with length 88
\* (4 tag + 32 box + 4 count + 48 points).
C4_MultiPointScenario ==
    (Parsed /\ gen = GenTestMultiPoint)
        => TestMultiPointDecoded /\ result.length = U(88) /\ pos = 88

C4_Witness == Parsed /\ gen = GenTestMultiPoint /\ result.status = "ok"

\* C5: a tag that is none of the 14 shape type codes decodes to (NullShape, 4)
\* and nothing after the 4 bytes of the tag is read, whatever follows.
C5_UnknownTag ==
    (Parsed /\ Complete /\ gen.tag \notin Tags)
        => /\ result.status = "ok"
           /\ result.shape = NullShape
           /\ result.length = U(4)
           /\ pos = 4

C5_Witness ==
    Returned /\ gen.tag = 259 /\ gen.extra = Garbage /\ Len(input) > 4

\* C6: a MultiPatch payload with a patch type code outside 0..5 makes
\* Shape::parse return an error value; it does not abort the program.
C6_BadPatchTypeIsError ==
    (Parsed /\ gen.tag = STY_MULTI_PATCH /\ ~ValidPatchTypes)
        => result.status = "err"

\* C7: a shape that Shape::parse returns has as many points as the declared
\* point count, as many parts (and patch types) as the declared part count, and
\* Z and M arrays, where the variant has them, of the length of the point count.
C7_DeclaredCounts ==
    (Returned /\ (HasParts(CurTag) \/ IsMultiPointType(CurTag)))
        => /\ Len(result.shape.points) = gen.num_points
           /\ HasParts(CurTag) => Len(result.shape.parts) = gen.num_parts
           /\ CurTag = STY_MULTI_PATCH => Len(result.shape.part_types) = gen.num_parts
           /\ HasZ(CurTag) => Len(result.shape.z) = gen.num_points
           /\ (HasZ(CurTag) \/ HasMOnly(CurTag)) => Len(result.shape.m) = gen.num_points

C7_Witness ==
    /\ Returned /\ CurTag = STY_MULTI_PATCH
    /\ Len(result.shape.parts) = 2 /\ Len(result.shape.points) = 1
    /\ Len(result.shape.z) = 1 /\ Len(result.shape.m) = 1

\* the variant a tag of a PolyLine / Polygon pair decodes to
KindOf(tag) ==
    CASE tag = STY_POLY_LINE -> "PolyLine"
      [] tag = STY_POLY_LINE_M -> "PolyLineM"
      [] tag = STY_POLY_LINE_Z -> "PolyLineZ"
      [] tag = STY_POLYGON -> "Polygon"
      [] tag = STY_POLYGON_M -> "PolygonM"
      [] tag = STY_POLYGON_Z -> "PolygonZ"

\* C8: the same bytes behind the other tag of a pair (3 / 5, 23 / 25, 13 / 15)
\* decode to the other variant with the same bounding box, parts, points,
\* Z range and values, M range and values, and the same length.
C8_PairedTags ==
    (Parsed /\ prev # None)
        => /\ result.status = prev.status
           /\ result.status = "ok"
                => /\ result.length = prev.length
                   /\ prev.shape.kind = KindOf(gen.tag)
                   /\ result.shape.kind = KindOf(PairTag(gen.tag))
                   /\ result.shape.bounding_box = prev.shape.bounding_box
                   /\ result.shape.parts = prev.shape.parts
                   /\ result.shape.points = prev.shape.points
                   /\ HasZ(gen.tag)
                        => /\ result.shape.z_range = prev.shape.z_range
                           /\ result.shape.z = prev.shape.z
                   /\ (HasZ(gen.tag) \/ HasMOnly(gen.tag))
                        => /\ result.shape.m_range = prev.shape.m_range
                           /\ result.shape.m = prev.shape.m

C8_Witness ==
    /\ Returned /\ prev # None /\ prev.status = "ok"
    /\ gen.tag = STY_POLY_LINE_M /\ result.shape.kind = "PolygonM"
    /\ Len(result.shape.m) = 2 /\ Len(result.shape.parts) = 2

----------------------------------------------------------------------------
(* shpfile.rs, filetypes/shpfile.rs, filetypes/shxfile.rs: headers, records, *)
(* the index table, the random-access reader and the sequential reader      *)

SHP_MAGIC_NUMBER == 9994
SHP_VERSION == 1000

BoundingBoxZ_new ==
    [x_min |-> F64Zero, y_min |-> F64Zero, x_max |-> F64Zero, y_max |-> F64Zero,
     z_min |-> F64Zero, z_max |-> F64Zero, m_min |-> F64Zero, m_max |-> F64Zero]

FileHeader_new == [file_length |-> 0, shape_type |-> 0, bounding_box |-> BoundingBoxZ_new]

\* faulty variant: the M range taken before the Z range
BoundingBoxZ_parse_MBeforeZ(s, p) ==
    LET box(v) ==
            IF ~v.ok THEN [ok |-> FALSE, val |-> BoundingBoxZ_new, pos |-> v.pos]
            ELSE [ok |-> TRUE, pos |-> v.pos,
                  val |-> [x_min |-> v.val[1], y_min |-> v.val[2],
                           x_max |-> v.val[3], y_max |-> v.val[4],
                           z_min |-> v.val[7], z_max |-> v.val[8],
                           m_min |-> v.val[5], m_max |-> v.val[6]]]
    IN  box(parse_array(s, p, U(8), "read_f64"))

\* BoundingBoxZ::parse: eight little-endian f64 read one after the other, the
\* first failed read ends it
BoundingBoxZ_parse(s, p) ==
    LET box(v) ==
            IF ~v.ok THEN [ok |-> FALSE, val |-> BoundingBoxZ_new, pos |-> v.pos]
            ELSE [ok |-> TRUE, pos |-> v.pos,
                  val |-> [x_min |-> v.val[1], y_min |-> v.val[2],
                           x_max |-> v.val[3], y_max |-> v.val[4],
                           z_min |-> v.val[5], z_max |-> v.val[6],
                           m_min |-> v.val[7], m_max |-> v.val[8]]]
    IN  box(parse_array(s, p, U(8), "read_f64"))

\* faulty variant: the version is read and not compared
FileHeader_parse_AnyVersion(s, p) ==
    LET header(file_length, shape_type, bounding_box) ==
            IF ~bounding_box.ok THEN Err(bounding_box.pos)
            ELSE [status |-> "ok", pos |-> bounding_box.pos,
                  header |-> [file_length |-> file_length.val,
                              shape_type |-> shape_type.val,
                              bounding_box |-> bounding_box.val]]
        type(file_length, shape_type) ==
            IF ~shape_type.ok THEN Err(shape_type.pos)
            ELSE header(file_length, shape_type, BoundingBoxZ_parse(s, shape_type.pos))
        checked(file_length, version) ==
            IF ~version.ok THEN Err(version.pos)
            ELSE type(file_length, read_i32_LittleEndian(s, version.pos))
        length(file_length) ==
            IF ~file_length.ok THEN Err(file_length.pos)
            ELSE checked(file_length, read_i32_LittleEndian(s, file_length.pos))
        skipped(n) == IF n < 20 THEN Err(n) ELSE length(read_i32_BigEndian(s, n))
        start(magic) ==
            IF ~magic.ok THEN Err(magic.pos)
            ELSE IF magic.val # SHP_MAGIC_NUMBER THEN Err(magic.pos)
            ELSE skipped(magic.pos + 20)
    IN  start(read_i32_BigEndian(s, p))

\* FileHeader::parse: the header, or an Err
FileHeader_parse(s, p) ==
    LET header(file_length, shape_type, bounding_box) ==
            IF ~bounding_box.ok THEN Err(bounding_box.pos)
            ELSE [status |-> "ok", pos |-> bounding_box.pos,
                  header |-> [file_length |-> file_length.val,
                              shape_type |-> shape_type.val,
                              bounding_box |-> bounding_box.val]]
        type(file_length, shape_type) ==
            IF ~shape_type.ok THEN Err(shape_type.pos)
            ELSE header(file_length, shape_type, BoundingBoxZ_parse(s, shape_type.pos))
        checked(file_length, version) ==
            IF ~version.ok THEN Err(version.pos)
            ELSE IF version.val # SHP_VERSION THEN Err(version.pos)
            ELSE type(file_length, read_i32_LittleEndian(s, version.pos))
        length(file_length) ==
            IF ~file_length.ok THEN Err(file_length.pos)
            ELSE checked(file_length, read_i32_LittleEndian(s, file_length.pos))
        skipped(n) == IF n < 20 THEN Err(n) ELSE length(read_i32_BigEndian(s, n))
        start(magic) ==
            IF ~magic.ok THEN Err(magic.pos)
            ELSE IF magic.val # SHP_MAGIC_NUMBER THEN Err(magic.pos)
            ELSE skipped(magic.pos + 20)
    IN  start(read_i32_BigEndian(s, p))

\* faulty variant: the header is read whatever the size of the file
parse_file_NoSizeCheck(bytes) ==
    FileHeader_parse(bytes, 0)

\* ShpFile::parse_file and ShxFile::parse_file: the size check, then
\* parse_header from offset 0
parse_file(bytes) ==
    IF Len(bytes) < 100 THEN Err(0) ELSE FileHeader_parse(bytes, 0)

\* Record::parse of shpfile.rs and filetypes/shpfile.rs: record number, content
\* length, shape; the length is 8 + the length Shape::parse returned
Record_parse(s, p, oc) ==
    LET record_number == read_i32_BigEndian(s, p)
        content_length == read_i32_BigEndian(s, record_number.pos)
        record(sh, len) ==
            IF oc /\ len.ovf THEN Panic(sh.pos)
            ELSE [status |-> "ok", pos |-> sh.pos, length |-> len.val,
                  record |-> [record_number |-> record_number.val,
                              content_length |-> content_length.val,
                              shape |-> sh.shape]]
        shape(sh) == IF sh.status # "ok" THEN sh ELSE record(sh, uadd(U(8), sh.length))
    IN  IF ~record_number.ok THEN Err(record_number.pos)
        ELSE IF ~content_length.ok THEN Err(content_length.pos)
        ELSE shape(Shape_parse_shpfile(s, content_length.pos, oc))

RECURSIVE parse_records(_, _, _, _, _, _, _)

\* faulty variant: a record that fails to decode ends the loop like the end of
\* the file does
parse_records_StopAtError(s, p, consumed, limit, records, heads, oc) ==
    LET heads1 == Append(heads, [consumed |-> consumed, pos |-> p])
        push(r, c) ==
            IF oc /\ c.ovf
            THEN [status |-> "panic", pos |-> r.pos, heads |-> heads1]
            ELSE parse_records(s, r.pos, c.val, limit,
                               Append(records, r.record), heads1, oc)
        parsed(r) ==
            IF r.status = "panic"
            THEN [status |-> r.status, pos |-> r.pos, heads |-> heads1]
            ELSE IF r.status # "ok"
            THEN [status |-> "ok", pos |-> r.pos, records |-> records, heads |-> heads1]
            ELSE push(r, uadd(consumed, r.length))
    IN  IF ~ult(consumed, limit)
        THEN [status |-> "ok", pos |-> p, records |-> records, heads |-> heads1]
        ELSE parsed(Record_parse(s, p, oc))

\* the loop of ShpFile::parse_stream; heads lists (consumed, position) at the
\* head of every iteration
parse_records(s, p, consumed, limit, records, heads, oc) ==
    LET heads1 == Append(heads, [consumed |-> consumed, pos |-> p])
        push(r, c) ==
            IF oc /\ c.ovf
            THEN [status |-> "panic", pos |-> r.pos, heads |-> heads1]
            ELSE parse_records(s, r.pos, c.val, limit,
                               Append(records, r.record), heads1, oc)
        parsed(r) ==
            IF r.status # "ok"
            THEN [status |-> r.status, pos |-> r.pos, heads |-> heads1]
            ELSE push(r, uadd(consumed, r.length))
    IN  IF ~ult(consumed, limit)
        THEN [status |-> "ok", pos |-> p, records |-> records, heads |-> heads1]
        ELSE parsed(Record_parse(s, p, oc))

\* ShpFile::parse_stream of shpfile.rs after its header h was read: the loop runs
\* while consumed < file_length as usize * 2
parse_stream_records(s, h, oc) ==
    LET limit == umul(2, as_usize(h.header.file_length))
    IN  IF h.status # "ok" THEN [status |-> "err", pos |-> h.pos, heads |-> <<>>]
        ELSE IF oc /\ limit.ovf
        THEN [status |-> "panic", pos |-> h.pos, heads |-> <<>>]
        ELSE parse_records(s, h.pos, U(100), limit.val, <<>>, <<>>, oc)

\* ShpFile::parse_stream of shpfile.rs: the header, then the records
parse_stream(s, oc) == parse_stream_records(s, FileHeader_parse(s, 0), oc)

\* Record::parse of filetypes/shxfile.rs: offset and length, big-endian
ShxRecord_parse(s, p) ==
    LET record(offset, length) ==
            IF ~length.ok THEN Err(length.pos)
            ELSE [status |-> "ok", pos |-> length.pos,
                  record |-> [offset |-> offset.val, length |-> length.val]]
        first(offset) ==
            IF ~offset.ok THEN Err(offset.pos)
            ELSE record(offset, read_i32_BigEndian(s, offset.pos))
    IN  first(read_i32_BigEndian(s, p))

\* ShxFile::num_records: (file_length as u64 * 2 - 100) / 8; panic tells
\* whether the build's overflow checks abort it
num_records(header, oc) ==
    LET count(file_size, diff) ==
            [panic |-> oc /\ (file_size.ovf \/ diff.ovf), val |-> udiv8(diff.val)]
        minus_header(file_size) == count(file_size, usub(file_size.val, 100))
    IN  minus_header(umul(2, as_usize(header.file_length)))

\* Seek::seek(SeekFrom::Start(n)) on a file: any offset up to i64::MAX is a
\* position, also past the end of the file
seek_Start(n) == IF n.k = 0 THEN [ok |-> TRUE, pos |-> n.v] ELSE [ok |-> FALSE, pos |-> 0]

\* faulty variant: the entry of id sought at 100 + id * 8
ShxFile_record_OffByOne(bytes, self, id, oc) ==
    LET read(record_pos, r) ==
            IF r.status = "ok"
            THEN [status |-> "Some", val |-> r.record, pos |-> r.pos,
                  io |-> <<[op |-> "seek", at |-> record_pos], [op |-> "read", to |-> r.pos]>>]
            ELSE [status |-> "None", pos |-> r.pos,
                  io |-> <<[op |-> "seek", at |-> record_pos], [op |-> "read", to |-> r.pos]>>]
        seek(record_pos) == read(record_pos, ShxRecord_parse(bytes, record_pos))
        lookup(record_count) ==
            IF record_count.panic
            THEN [status |-> "panic", pos |-> self.pos, io |-> <<>>]
            ELSE IF ugt(U(id), record_count.val) \/ id < 1
            THEN [status |-> "None", pos |-> self.pos, io |-> <<>>]
            ELSE seek(100 + id * 8)
    IN  lookup(num_records(self.header, oc))

\* ShxFile::record: the index record of id, None, or a panic; io lists what was
\* done to the file handle
ShxFile_record(bytes, self, id, oc) ==
    LET read(record_pos, r) ==
            IF r.status = "ok"
            THEN [status |-> "Some", val |-> r.record, pos |-> r.pos,
                  io |-> <<[op |-> "seek", at |-> record_pos], [op |-> "read", to |-> r.pos]>>]
            ELSE [status |-> "None", pos |-> r.pos,
                  io |-> <<[op |-> "seek", at |-> record_pos], [op |-> "read", to |-> r.pos]>>]
        seek(record_pos) == read(record_pos, ShxRecord_parse(bytes, record_pos))
        lookup(record_count) ==
            IF record_count.panic
            THEN [status |-> "panic", pos |-> self.pos, io |-> <<>>]
            ELSE IF ugt(U(id), record_count.val) \/ id < 1
            THEN [status |-> "None", pos |-> self.pos, io |-> <<>>]
            ELSE seek(100 + (id - 1) * 8)
    IN  lookup(num_records(self.header, oc))

\* faulty variant: no seek, the record is read where the file handle stands
ShpFile_record_at_NoSeek(bytes, self, shx, oc) ==
    LET offset == umul(2, as_usize(shx.val.offset))
        p == [ok |-> TRUE, pos |-> self.pos]
        read(r) ==
            IF r.status = "ok"
            THEN [status |-> "Some", val |-> r.record, pos |-> r.pos, shx |-> shx,
                  io |-> <<[op |-> "seek", at |-> offset.val],
                           [op |-> "read", to |-> r.pos]>>]
            ELSE [status |-> IF r.status = "panic" THEN "panic" ELSE "None",
                  pos |-> r.pos, shx |-> shx,
                  io |-> <<[op |-> "seek", at |-> offset.val],
                           [op |-> "read", to |-> r.pos]>>]
    IN  IF shx.status # "Some"
        THEN [status |-> shx.status, pos |-> self.pos, io |-> <<>>, shx |-> shx]
        ELSE IF oc /\ offset.ovf
        THEN [status |-> "panic", pos |-> self.pos, io |-> <<>>, shx |-> shx]
        ELSE IF ~p.ok
        THEN [status |-> "None", pos |-> self.pos, shx |-> shx,
              io |-> <<[op |-> "seek", at |-> offset.val]>>]
        ELSE read(Record_parse(bytes, p.pos, oc))

\* ShpFile::record of filetypes/shpfile.rs once shx_file.record(id) returned shx:
\* the record of id, None, or a panic
ShpFile_record_at(bytes, self, shx, oc) ==
    LET offset == umul(2, as_usize(shx.val.offset))
        p == seek_Start(offset.val)
        read(r) ==
            IF r.status = "ok"
            THEN [status |-> "Some", val |-> r.record, pos |-> r.pos, shx |-> shx,
                  io |-> <<[op |-> "seek", at |-> offset.val],
                           [op |-> "read", to |-> r.pos]>>]
            ELSE [status |-> IF r.status = "panic" THEN "panic" ELSE "None",
                  pos |-> r.pos, shx |-> shx,
                  io |-> <<[op |-> "seek", at |-> offset.val],
                           [op |-> "read", to |-> r.pos]>>]
    IN  IF shx.status # "Some"
        THEN [status |-> shx.status, pos |-> self.pos, io |-> <<>>, shx |-> shx]
        ELSE IF oc /\ offset.ovf
        THEN [status |-> "panic", pos |-> self.pos, io |-> <<>>, shx |-> shx]
        ELSE IF ~p.ok
        THEN [status |-> "None", pos |-> self.pos, shx |-> shx,
              io |-> <<[op |-> "seek", at |-> offset.val]>>]
        ELSE read(Record_parse(bytes, p.pos, oc))

\* faulty variant: the main file is rewound before the index is looked at
ShpFile_record_RewindFirst(bytes, self, shx_file_bytes, shx_self, id, oc) ==
    LET rewound(r) ==
            IF r.shx.status # "None" THEN r
            ELSE [r EXCEPT !.pos = 0, !.io = <<[op |-> "seek", at |-> U(0)]>>]
    IN  rewound(ShpFile_record_at(bytes, self,
                                  ShxFile_record(shx_file_bytes, shx_self, id, oc), oc))

\* ShpFile::record of filetypes/shpfile.rs: the index lookup, then the record
ShpFile_record(bytes, self, shx_file_bytes, shx_self, id, oc) ==
    ShpFile_record_at(bytes, self, ShxFile_record(shx_file_bytes, shx_self, id, oc), oc)

----------------------------------------------------------------------------
(* The facade: Shapefile::record over the three files, and its iterator *)

\* `id as u32`: the ids of the model are far below 2^32, where the cast keeps
\* the value
as_u32(id) == id

\* a - b on u32; ovf tells whether the true difference is negative, and val is
\* then the difference before it wraps by 2^32 (a value above every row number)
sub_u32(a, b) == [ovf |-> a < b, val |-> a - b]

\* DbfFile::record(id): dbf's DbfFile::record, the row with number id of the
\* table, rows counted from 0 (lib.rs reads the first row of its table with
\* Shapefile::record(1) and the last, of 298773, with record(298773))
DbfFile_record(self, id) ==
    IF ~id.ovf /\ id.val < Len(self.rows)
    THEN [status |-> "Some", val |-> self.rows[id.val + 1]]
    ELSE [status |-> "None"]

\* faulty variant: the attribute lookup goes by the ordinal itself
Shapefile_record_at_SameOrdinal(dbf, geometry, id, oc) ==
    LET key == sub_u32(as_u32(id), 0)
        attribute == DbfFile_record(dbf, key)
    IN  IF geometry.status # "Some"
        THEN [status |-> geometry.status, shp |-> geometry, dbf_calls |-> <<>>]
        ELSE IF oc /\ key.ovf
        THEN [status |-> "panic", shp |-> geometry, dbf_calls |-> <<>>]
        ELSE IF attribute.status = "Some"
        THEN [status |-> "Some", shp |-> geometry, dbf_calls |-> <<key>>,
              val |-> [shape |-> geometry.val.shape, metadata |-> attribute.val]]
        ELSE [status |-> "None", shp |-> geometry, dbf_calls |-> <<key>>]

\* Shapefile::record once shp_file.record(&mut shx_file, id) returned geometry:
\* the attribute lookup with `id as u32 - 1`; dbf_calls lists the keys that
\* dbf_file.record was called with
Shapefile_record_at(dbf, geometry, id, oc) ==
    LET key == sub_u32(as_u32(id), 1)
        attribute == DbfFile_record(dbf, key)
    IN  IF geometry.status # "Some"
        THEN [status |-> geometry.status, shp |-> geometry, dbf_calls |-> <<>>]
        ELSE IF oc /\ key.ovf
        THEN [status |-> "panic", shp |-> geometry, dbf_calls |-> <<>>]
        ELSE IF attribute.status = "Some"
        THEN [status |-> "Some", shp |-> geometry, dbf_calls |-> <<key>>,
              val |-> [shape |-> geometry.val.shape, metadata |-> attribute.val]]
        ELSE [status |-> "None", shp |-> geometry, dbf_calls |-> <<key>>]

\* Shapefile::record: the geometry lookup, then the attribute lookup
Shapefile_record(bytes, shp_self, shx_file_bytes, shx_self, dbf, id, oc) ==
    Shapefile_record_at(dbf,
        ShpFile_record(bytes, shp_self, shx_file_bytes, shx_self, id, oc), id, oc)

\* faulty variant: the iteration goes on where the one before it stopped
Shapefile_iter_Resume(old) ==
    [live |-> TRUE, id |-> IF old = None THEN 1 ELSE old.id,
     count |-> 0, first |-> None,
     earlier |-> IF old = None THEN None
                 ELSE IF old.first # None THEN old.first
                 ELSE old.earlier]

\* Shapefile::iter: a ShapefileRecordIterator with id 1.  count is the number
\* of items it returned, first the first of them, earlier the first item of the
\* iterator before it (old)
Shapefile_iter(old) ==
    [live |-> TRUE, id |-> 1,
     count |-> 0, first |-> None,
     earlier |-> IF old = None THEN None
                 ELSE IF old.first # None THEN old.first
                 ELSE old.earlier]

----------------------------------------------------------------------------
(* The files: a main file written record by record and its index file *)

\* the shape types of the files tried
FileTags ==
    {STY_NULL_SHAPE, STY_POINT, STY_POINT_M, STY_POINT_Z, STY_POLY_LINE, STY_MULTI_POINT_Z}

\* the payload of the i-th record of a file of shape type tag; records differ
RecordGen(tag, i) ==
    IF IsPointType(tag)
    THEN [GenOf(tag, 0, 0, <<>>, <<>>, 0, <<>>) EXCEPT
            !.point = IF tag = STY_POINT THEN <<D(100 + 10 * i), D(101 + 10 * i)>>
                      ELSE IF tag = STY_POINT_M
                      THEN <<D(100 + 10 * i), D(101 + 10 * i), D(103 + 10 * i)>>
                      ELSE <<D(100 + 10 * i), D(101 + 10 * i), D(102 + 10 * i), D(103 + 10 * i)>>]
    ELSE IF tag = STY_POLY_LINE
    THEN GenOf(tag, 1, i, <<0>>, <<>>, 0, <<>>)
    ELSE IF tag = STY_MULTI_POINT_Z
    THEN GenOf(tag, 0, i, <<>>, <<>>, 0, <<>>)
    ELSE GenOf(tag, 0, 0, <<>>, <<>>, 0, <<>>)

Unused == [i \in 1..20 |-> i]

HeaderBox == [i \in 1..8 |-> D(80 + i)]

\* the 100 bytes of a header declaring file_length words
write_header(file_length, shape_type) ==
    write_i32_BigEndian(SHP_MAGIC_NUMBER) \o Unused
      \o write_i32_BigEndian(file_length)
      \o write_i32_LittleEndian(SHP_VERSION) \o write_i32_LittleEndian(shape_type)
      \o write_f64_vec(HeaderBox)

\* the bytes of record i: number, content length in words, payload
write_record(i, g) ==
    write_i32_BigEndian(i) \o write_i32_BigEndian(Len(Payload(g)) \div 2) \o Payload(g)

RecordBytes(fg) == [i \in 1..Len(fg.records) |-> write_record(i, fg.records[i])]

\* the byte offset of record i in the main file
RECURSIVE OffsetOf(_, _)
OffsetOf(fg, i) ==
    IF i = 1 THEN 100 ELSE OffsetOf(fg, i - 1) + Len(RecordBytes(fg)[i - 1])

\* the index entries a matching index file holds: offset and content length in words
Entries(fg) ==
    [i \in 1..Len(fg.records) |->
        [offset |-> OffsetOf(fg, i) \div 2, length |-> Len(Payload(fg.records[i])) \div 2]]

ShpBytes(fg) ==
    LET body == Flatten(RecordBytes(fg))
        full == write_header((100 + Len(body)) \div 2, fg.shape_type) \o body
    IN  Take(full, Len(full) - fg.shp_drop)

ShxBytes(fg) ==
    LET body == Flatten([i \in 1..Len(fg.records) |->
                           write_i32_BigEndian(Entries(fg)[i].offset)
                             \o write_i32_BigEndian(Entries(fg)[i].length)])
        full == write_header(fg.shx_file_length, fg.shape_type) \o body
    IN  Take(full, Len(full) - fg.shx_drop) \o fg.shx_extra

\* the index files tried for r records: the matching one, one that lost its
\* last byte, one declaring 2 words more than its entries (with 4 stray bytes),
\* one declaring 49 words, one declaring -1 words
ShxKinds(r) ==
    {[file_length |-> 50 + 4 * r, drop |-> 0, extra |-> <<>>],
     [file_length |-> 50 + 4 * r, drop |-> 1, extra |-> <<>>],
     [file_length |-> 52 + 4 * r, drop |-> 0, extra |-> <<0, 0, 0, 7>>],
     [file_length |-> 49, drop |-> 0, extra |-> <<>>],
     [file_length |-> -1, drop |-> 0, extra |-> <<>>]}

FileGens ==
    UNION {UNION {
        {[shape_type |-> tag, records |-> [i \in 1..r |-> RecordGen(tag, i)],
          shp_drop |-> shp_drop,
          shx_file_length |-> k.file_length, shx_drop |-> k.drop, shx_extra |-> k.extra] :
            k \in ShxKinds(r), shp_drop \in {0, 1}} :
        r \in 0..MaxRecords} :
        tag \in FileTags}

\* the main file is whole and the index file is the one that matches it
WellFormed(fg) ==
    /\ fg.shp_drop = 0
    /\ fg.shx_file_length = 50 + 4 * Len(fg.records)
    /\ fg.shx_drop = 0
    /\ fg.shx_extra = <<>>

Ids == 0..(MaxRecords + 1)

----------------------------------------------------------------------------
(* The readers at work on one pair of files *)

InitFile ==
    /\ overflow_checks \in BOOLEAN
    /\ gen \in FileGens
    /\ shp_bytes = ShpBytes(gen)
    /\ shx_bytes = ShxBytes(gen)
    /\ shp_file = None
    /\ shx_file = None
    /\ stream_result = None
    /\ dbf_file = None
    /\ iter = None
    /\ result = None
    /\ pc = "closed"
    /\ input = <<>>
    /\ pos = 0
    /\ prev = None

\* Shapefile::new: ShpFile::parse_file, then ShxFile::parse_file
Open ==
    /\ pc = "closed"
    /\ \E shp \in {parse_file(shp_bytes)}, shx \in {parse_file(shx_bytes)} :
           IF shp.status = "ok" /\ shx.status = "ok"
           THEN /\ shp_file' = [header |-> shp.header, pos |-> shp.pos]
                /\ shx_file' = [header |-> shx.header, pos |-> shx.pos]
                /\ pc' = "open"
                /\ result' = [op |-> "Shapefile::new", status |-> "ok"]
           ELSE /\ UNCHANGED <<shp_file, shx_file>>
                /\ pc' = "failed"
                /\ result' = [op |-> "Shapefile::new", status |-> "err"]
    /\ UNCHANGED <<overflow_checks, gen, input, pos, prev, shp_bytes, shx_bytes, stream_result,
                   dbf_file, iter>>

\* shx_file.record(id)
ShxRecord(id) ==
    /\ pc = "open"
    /\ \E r \in {ShxFile_record(shx_bytes, shx_file, id, overflow_checks)} :
           /\ result' = [op |-> "ShxFile::record", id |-> id, ret |-> r,
                         shx_before |-> shx_file.pos, shp_before |-> shp_file.pos]
           /\ shx_file' = [shx_file EXCEPT !.pos = r.pos]
           /\ pc' = IF r.status = "panic" THEN "aborted" ELSE "open"
    /\ UNCHANGED <<overflow_checks, gen, input, pos, prev, shp_bytes, shx_bytes,
                   shp_file, stream_result, dbf_file, iter>>

\* shp_file.record(&mut shx_file, id)
ShpRecord(id) ==
    /\ pc = "open"
    /\ \E r \in {ShpFile_record(shp_bytes, shp_file, shx_bytes, shx_file, id,
                                  overflow_checks)} :
           /\ result' = [op |-> "ShpFile::record", id |-> id, ret |-> r,
                         shx_before |-> shx_file.pos, shp_before |-> shp_file.pos]
           /\ shx_file' = [shx_file EXCEPT !.pos = r.shx.pos]
           /\ shp_file' = [shp_file EXCEPT !.pos = r.pos]
           /\ pc' = IF r.status = "panic" THEN "aborted" ELSE "open"
    /\ UNCHANGED <<overflow_checks, gen, input, pos, prev, shp_bytes, shx_bytes, stream_result,
                   dbf_file, iter>>

\* ShpFile::parse_stream on a stream of its own over the main file
ParseStream ==
    /\ stream_result = None
    /\ stream_result' = parse_stream(shp_bytes, overflow_checks)
    /\ UNCHANGED <<overflow_checks, gen, input, pos, result, prev, pc,
                   shp_bytes, shx_bytes, shp_file, shx_file, dbf_file, iter>>

\* shx_file.num_records()
NumRecords ==
    /\ pc = "open"
    /\ \E n \in {num_records(shx_file.header, overflow_checks)} :
           /\ result' = [op |-> "ShxFile::num_records", ret |-> n]
           /\ pc' = IF n.panic THEN "aborted" ELSE "open"
    /\ UNCHANGED <<overflow_checks, gen, input, pos, prev, shp_bytes, shx_bytes,
                   shp_file, shx_file, stream_result, dbf_file, iter>>

NextFile ==
    \/ Open
    \/ \E id \in Ids : ShxRecord(id)
    \/ \E id \in Ids : ShpRecord(id)
    \/ ParseStream
    \/ NumRecords

SpecFile == InitFile /\ [][NextFile]_vars

----------------------------------------------------------------------------
(* Properties of the readers, checked under SpecFile *)

\* C1: for a whole main file and its matching index file, the record that
\* ShpFile::record(shx, k) returns for k in 1..N equals the k-th element of the
\* list that ShpFile::parse_stream produces from the same bytes, for every
\* shape type, Point, PointM and PointZ included.
C1_RandomAccessIsSequential ==
    (/\ result # None /\ result.op = "ShpFile::record"
     /\ result.ret.status # "panic"
     /\ WellFormed(gen) /\ result.id \in 1..Len(gen.records)
     /\ stream_result # None)
        => /\ result.ret.status = "Some"
           /\ stream_result.status = "ok"
           /\ Len(stream_result.records) = Len(gen.records)
           /\ result.ret.val = stream_result.records[result.id]

\* the number of records of the opened index file, as ShxFile::num_records has it
N == num_records(shx_file.header, overflow_checks).val

\* the index file holds 8 bytes at the offset of entry id
EntryOnDisk(id) == 100 + (id - 1) * 8 + 8 <= Len(shx_bytes)

\* C9: with N = ShxFile::num_records(), ShxFile::record(id) for 1 <= id <= N
\* seeks the index stream to 100 + (id - 1) * 8 and returns the 8 bytes there
\* decoded as big-endian (offset, length) (None when the file ends before
\* them); for id = 0 and id > N it returns None without seeking or reading.
C9_IndexLookup ==
    (result # None /\ result.op = "ShxFile::record" /\ result.ret.status # "panic")
        => IF result.id >= 1 /\ ~ugt(U(result.id), N)
           THEN /\ result.ret.io[1] = [op |-> "seek", at |-> 100 + (result.id - 1) * 8]
                /\ EntryOnDisk(result.id)
                     => /\ result.ret.status = "Some"
                        /\ result.id <= Len(gen.records)
                             => result.ret.val = Entries(gen)[result.id]
                        /\ write_i32_BigEndian(result.ret.val.offset)
                             \o write_i32_BigEndian(result.ret.val.length)
                             = SubSeq(shx_bytes, 100 + (result.id - 1) * 8 + 1,
                                      100 + (result.id - 1) * 8 + 8)
                        /\ shx_file.pos = 100 + (result.id - 1) * 8 + 8
                /\ ~EntryOnDisk(result.id) => result.ret.status = "None"
           ELSE /\ result.ret.status = "None"
                /\ result.ret.io = <<>>
                /\ shx_file.pos = result.shx_before

C9_Witness ==
    /\ result # None /\ result.op = "ShxFile::record"
    /\ result.id = 2 /\ result.ret.status = "Some"
    /\ result.ret.val = Entries(gen)[2]
    /\ shx_file.pos = 116

\* C10: an index file whose header declares a length for which
\* file_length * 2 - 100 is not a multiple of 8 is rejected as malformed; it
\* is not opened with a rounded-down record count.
C10_RaggedIndexRejected ==
    (pc = "open") => (shx_file.header.file_length * 2 - 100) % 8 = 0

\* C19: for a main file whose header declares file_length words and whose
\* body is exactly R complete records filling bytes 100..2*file_length,
\* ShpFile::parse_stream returns exactly those R records, in order.
C19_StreamReturnsEveryRecord ==
    (stream_result # None /\ gen.shp_drop = 0)
        => /\ stream_result.status = "ok"
           /\ Len(stream_result.records) = Len(gen.records)
           /\ \A i \in 1..Len(gen.records) :
                  /\ stream_result.records[i].record_number = i
                  /\ stream_result.records[i].content_length
                       = Len(Payload(gen.records[i])) \div 2
                  /\ stream_result.records[i].shape
                       = Shape_parse(Payload(gen.records[i]), 0, overflow_checks).shape

\* C20: when the stream ends before a record is complete (the declared file
\* length is not yet reached but too few bytes remain), ShpFile::parse_stream
\* returns an error and no record list; it never returns the records decoded
\* so far as if the file had ended cleanly.
C20_TruncatedStreamIsError ==
    (stream_result # None /\ gen.shp_drop = 1 /\ Len(gen.records) >= 1)
        => /\ stream_result.status = "err"
           /\ "records" \notin DOMAIN stream_result

\* the second of two records is cut short: the loop decoded the first one,
\* went round again and returned an error
C20_Witness ==
    /\ stream_result # None /\ stream_result.status = "err"
    /\ gen.shp_drop = 1 /\ Len(gen.records) = 2 /\ gen.shape_type = STY_POLY_LINE
    /\ Len(stream_result.heads) = 2
    /\ stream_result.heads[2].pos = OffsetOf(gen, 2)
    /\ stream_result.pos = Len(shp_bytes)

----------------------------------------------------------------------------
(* The facade at work on a main file, an index file and an attribute table *)

\* the shape types of the files the facade is tried on
ReaderTags == {STY_POINT, STY_POLY_LINE, STY_MULTI_PATCH}

\* the i-th record of such a file; the second MultiPatch record carries a patch
\* type code that is no patch type
ReaderRecordGen(tag, i) ==
    IF tag = STY_MULTI_PATCH
    THEN GenOf(tag, 1, i, <<0>>, <<IF i = 2 THEN MaxPatchCode ELSE PTY_TRIANGLE_STRIP>>, 0, <<>>)
    ELSE RecordGen(tag, i)

\* what overwrites the offset of the first index entry: nothing, -1, or a word
\* offset past the end of the main file
ShxOffsets(r) == IF r = 0 THEN {<<>>} ELSE {<<>>, <<-1>>, <<30000>>}

\* the index files tried: the matching one and one declaring 49 words
ReaderShxKinds(r) == {k \in ShxKinds(r) : k.drop = 0 /\ k.extra = <<>> /\ k.file_length >= 0}

\* the numbers of rows of the attribute table tried for r records
DbfRows(r) == {r, Max(r - 1, 0)}

ReaderGens ==
    UNION {UNION {
        {[shape_type |-> tag, records |-> [i \in 1..r |-> ReaderRecordGen(tag, i)],
          shp_drop |-> shp_drop,
          shx_file_length |-> k.file_length, shx_drop |-> k.drop, shx_extra |-> k.extra,
          shx_offset |-> offset, dbf_rows |-> rows] :
            k \in ReaderShxKinds(r), shp_drop \in {0, 1}, offset \in ShxOffsets(r),
            rows \in DbfRows(r)} :
        r \in 0..MaxRecords} :
        tag \in ReaderTags}

\* bytes with new written over what follows its first at bytes
Overwrite(bytes, at, new) ==
    Take(bytes, at) \o new \o SubSeq(bytes, at + Len(new) + 1, Len(bytes))

\* the index file of fg, its first entry holding fg.shx_offset
ReaderShxBytes(fg) ==
    IF fg.shx_offset = <<>> THEN ShxBytes(fg)
    ELSE Overwrite(ShxBytes(fg), 100, write_i32_BigEndian(fg.shx_offset[1]))

\* the rows of the attribute table
DbfRowsOf(fg) == [i \in 1..fg.dbf_rows |-> [row |-> i - 1]]

\* every record of the main file decodes, and the index file matches it
Sound(fg) ==
    /\ WellFormed(fg)
    /\ fg.shx_offset = <<>>
    /\ \A i \in 1..Len(fg.records) :
           \A j \in 1..Len(fg.records[i].part_types) :
               fg.records[i].part_types[j] \in 0..5

MaxNext == MaxRecords + 1

InitReader ==
    /\ overflow_checks \in BOOLEAN
    /\ gen \in ReaderGens
    /\ shp_bytes = ShpBytes(gen)
    /\ shx_bytes = ReaderShxBytes(gen)
    /\ dbf_file = [rows |-> DbfRowsOf(gen)]
    /\ shp_file = None
    /\ shx_file = None
    /\ stream_result = None
    /\ iter = None
    /\ result = None
    /\ pc = "closed"
    /\ input = <<>>
    /\ pos = 0
    /\ prev = None

\* the end of the borrow that a live iterator holds on the Shapefile
Drop(it) == IF it = None THEN None ELSE [it EXCEPT !.live = FALSE]

\* shp_file.record(&mut shx_file, id), no iterator alive
ReaderShpRecord(id) ==
    /\ pc = "open"
    /\ \E r \in {ShpFile_record(shp_bytes, shp_file, shx_bytes, shx_file, id,
                                  overflow_checks)} :
           /\ result' = [op |-> "ShpFile::record", id |-> id, ret |-> r,
                         shx_before |-> shx_file.pos, shp_before |-> shp_file.pos]
           /\ shx_file' = [shx_file EXCEPT !.pos = r.shx.pos]
           /\ shp_file' = [shp_file EXCEPT !.pos = r.pos]
           /\ pc' = IF r.status = "panic" THEN "aborted" ELSE "open"
    /\ iter' = Drop(iter)
    /\ UNCHANGED <<overflow_checks, gen, input, pos, prev, shp_bytes, shx_bytes, stream_result,
                   dbf_file>>

\* Shapefile::record(id), no iterator alive
Record(id) ==
    /\ pc = "open"
    /\ \E r \in {Shapefile_record(shp_bytes, shp_file, shx_bytes, shx_file, dbf_file, id,
                                    overflow_checks)} :
           /\ result' = [op |-> "Shapefile::record", id |-> id, ret |-> r,
                         shx_before |-> shx_file.pos, shp_before |-> shp_file.pos]
           /\ shx_file' = [shx_file EXCEPT !.pos = r.shp.shx.pos]
           /\ shp_file' = [shp_file EXCEPT !.pos = r.shp.pos]
           /\ pc' = IF r.status = "panic" THEN "aborted" ELSE "open"
    /\ iter' = Drop(iter)
    /\ UNCHANGED <<overflow_checks, gen, input, pos, prev, shp_bytes, shx_bytes, stream_result,
                   dbf_file>>

\* Shapefile::iter()
Iter ==
    /\ pc = "open"
    /\ iter' = Shapefile_iter(iter)
    /\ iter' # iter
    /\ UNCHANGED <<overflow_checks, gen, input, pos, result, prev, pc, shp_bytes, shx_bytes,
                   shp_file, shx_file, stream_result, dbf_file>>

\* ShapefileRecordIterator::next: instance.record(id), then id += 1
IterNext ==
    /\ pc = "open"
    /\ iter # None /\ iter.live
    /\ iter.id <= MaxNext
    /\ \E r \in {Shapefile_record(shp_bytes, shp_file, shx_bytes, shx_file, dbf_file, iter.id,
                                    overflow_checks)} :
           /\ result' = [op |-> "Iterator::next", id |-> iter.id, ret |-> r,
                         shx_before |-> shx_file.pos, shp_before |-> shp_file.pos]
           /\ shx_file' = [shx_file EXCEPT !.pos = r.shp.shx.pos]
           /\ shp_file' = [shp_file EXCEPT !.pos = r.shp.pos]
           /\ pc' = IF r.status = "panic" THEN "aborted" ELSE "open"
           /\ iter' = IF r.status = "panic" THEN iter
                      ELSE [iter EXCEPT !.id = iter.id + 1, !.count = iter.count + 1,
                                        !.first = IF iter.count = 0
                                                  THEN [status |-> r.status,
                                                        val |-> IF r.status = "Some"
                                                                THEN r.val ELSE None]
                                                  ELSE iter.first]
    /\ UNCHANGED <<overflow_checks, gen, input, pos, prev, shp_bytes, shx_bytes, stream_result,
                   dbf_file>>

NextReader ==
    \/ Open
    \/ \E id \in Ids : ReaderShpRecord(id)
    \/ \E id \in Ids : Record(id)
    \/ Iter
    \/ IterNext

SpecReader == InitReader /\ [][NextReader]_vars

----------------------------------------------------------------------------
(* Properties of the facade, checked under SpecReader *)

\* the last call was op
Called(op) == result # None /\ result.op = op

\* C11: ShpFile::record(shx, id) seeks the main stream to 2 * (the index
\* offset in words) and returns None, never an error value, an abort or a
\* partly filled Record, in every failure case: the index lookup returns
\* nothing, the seek fails or lands elsewhere, or decoding the record header or
\* the shape body fails.
C11_FailureIsNone ==
    Called("ShpFile::record")
        => /\ result.ret.status \in {"Some", "None"}
           /\ result.ret.shx.status # "Some"
                => result.ret.status = "None" /\ result.ret.io = <<>>
           /\ result.ret.io # <<>>
                => result.ret.io[1]
                     = [op |-> "seek", at |-> umul(2, as_usize(result.ret.shx.val.offset)).val]
           /\ result.ret.status = "Some"
                => result.ret.val
                     = Record_parse(shp_bytes, 2 * result.ret.shx.val.offset,
                                    overflow_checks).record

\* a handle as ShpFile::parse_file and ShxFile::parse_file return it
Fresh(bytes) ==
    LET handle(r) == [header |-> r.header, pos |-> r.pos]
    IN  handle(parse_file(bytes))

\* what a lookup returned to its caller
Outcome(r) == [status |-> r.status, val |-> IF r.status = "Some" THEN r.val ELSE None]

\* C12: a failed lookup does not corrupt the reader: after any finite sequence
\* of ShpFile::record and Shapefile::record calls, a call for k returns what
\* the same call returns on a freshly opened reader over the same files, and
\* the parsed headers are unchanged.
C12_LookupsLeaveNoTrace ==
    (pc \in {"open", "aborted"})
        => /\ shp_file.header = Fresh(shp_bytes).header
           /\ shx_file.header = Fresh(shx_bytes).header
           /\ Called("ShpFile::record")
                => Outcome(result.ret)
                     = Outcome(ShpFile_record(shp_bytes, Fresh(shp_bytes),
                                              shx_bytes, Fresh(shx_bytes),
                                              result.id, overflow_checks))
           /\ (Called("Shapefile::record") \/ Called("Iterator::next"))
                => Outcome(result.ret)
                     = Outcome(Shapefile_record(shp_bytes, Fresh(shp_bytes),
                                                shx_bytes, Fresh(shx_bytes),
                                                dbf_file, result.id, overflow_checks))

\* record 1 is found by a reader whose handle an earlier, failed lookup left at
\* the end of the truncated main file
C12_Witness ==
    /\ Called("Shapefile::record")
    /\ result.id = 1 /\ result.ret.status = "Some"
    /\ gen.shp_drop = 1
    /\ result.shp_before = Len(shp_bytes)
    /\ result.shx_before = 116

\* the last call was Shapefile::record, made directly or by an iterator
Looked == Called("Shapefile::record") \/ Called("Iterator::next")

\* C13: Shapefile::record(id) returns Some exactly when both the geometry
\* lookup and the attribute lookup return a value; it returns None without
\* aborting for id = 0 and for id = num_records() + 1, and for id = 0 the
\* attribute lookup (key `id as u32 - 1`) is never reached because the geometry
\* lookup returns None first.
C13_SomeNeedsBothLookups ==
    Looked
        => /\ result.ret.status = "Some"
                <=> /\ result.ret.shp.status = "Some"
                    /\ result.ret.dbf_calls # <<>>
                    /\ DbfFile_record(dbf_file, result.ret.dbf_calls[1]).status = "Some"
           /\ result.id = 0
                => result.ret.status = "None" /\ result.ret.dbf_calls = <<>>
           /\ (N.k = 0 /\ result.id = N.v + 1)
                => result.ret.status = "None"

\* C14: when the geometry lookup succeeds, the attribute decoder is called
\* with id - 1 (as u32), the 0-based row of the 1-based ordinal passed to the
\* geometry lookup, and with nothing else.
C14_AttributeKey ==
    (Looked /\ result.ret.shp.status = "Some" /\ result.ret.status # "panic")
        => result.ret.dbf_calls = <<[ovf |-> FALSE, val |-> result.id - 1]>>

\* C14 as stated: the attribute decoder is called with the same 1-based
\* ordinal that was passed to the geometry lookup.
C14_Original ==
    (Looked /\ result.ret.shp.status = "Some" /\ result.ret.status # "panic")
        => result.ret.dbf_calls = <<[ovf |-> FALSE, val |-> result.id]>>

\* record 2 comes back with the row numbered 1
C14_Witness ==
    /\ Called("Shapefile::record")
    /\ result.id = 2 /\ result.ret.status = "Some"
    /\ result.ret.dbf_calls = <<[ovf |-> FALSE, val |-> 1]>>
    /\ result.ret.val.metadata = dbf_file.rows[2]

\* C15: every iterator obtained from Shapefile::iter() starts at ordinal 1,
\* whatever iterators or record() calls came before it; its k-th next() returns
\* what Shapefile::record(k) returns; the first item of a second iterator
\* equals the first item of the first.
C15_IteratorsStartAtOne ==
    (pc = "open" /\ iter # None)
        => /\ iter.id = iter.count + 1
           /\ (Called("Iterator::next") /\ iter.live /\ iter.count >= 1)
                => /\ result.id = iter.count
                   /\ Outcome(result.ret)
                        = Outcome(Shapefile_record(shp_bytes, Fresh(shp_bytes),
                                                   shx_bytes, Fresh(shx_bytes),
                                                   dbf_file, iter.count, overflow_checks))
           /\ (iter.first # None /\ iter.earlier # None) => iter.first = iter.earlier

\* a second iterator, made after the first one had moved on, returned records 1
\* and 2
C15_Witness ==
    /\ Called("Iterator::next") /\ iter.live
    /\ iter.earlier # None /\ iter.earlier.status = "Some"
    /\ iter.first = iter.earlier
    /\ iter.count = 2 /\ result.id = 2 /\ result.ret.status = "Some"
    /\ result.shp_before # 100

----------------------------------------------------------------------------
(* FileHeader::parse and parse_file on hand-built headers *)

\* 9994 as a reader of big-endian sees it when it was written little-endian
MagicLittleEndian == i32_from_BigEndian(write_i32_LittleEndian(SHP_MAGIC_NUMBER))

Zeros == [i \in 1..20 |-> 0]

\* the headers tried: right and wrong magic numbers and versions, two fillings
\* of the unused bytes, and every length from nothing to the whole header and
\* MaxTrailing bytes of a record
HeaderGens ==
    [magic : {SHP_MAGIC_NUMBER, SHP_MAGIC_NUMBER - 1, MagicLittleEndian},
     unused : {Unused, Zeros},
     file_length : {50, -1},
     version : {SHP_VERSION, SHP_VERSION - 1},
     shape_type : {STY_POINT, 99},
     keep : 0..(100 + MaxTrailing)]

\* the bytes of g: the 100 bytes of the header and MaxTrailing more, cut after
\* g.keep bytes
HeaderBytes(g) ==
    Take(write_i32_BigEndian(g.magic) \o g.unused
           \o write_i32_BigEndian(g.file_length)
           \o write_i32_LittleEndian(g.version) \o write_i32_LittleEndian(g.shape_type)
           \o write_f64_vec(HeaderBox) \o [i \in 1..MaxTrailing |-> 7],
         g.keep)

InitHeader ==
    /\ overflow_checks \in BOOLEAN
    /\ gen \in HeaderGens
    /\ input = HeaderBytes(gen)
    /\ pos = 0
    /\ result = None
    /\ prev = None
    /\ pc = "ready"
    /\ shp_bytes = <<>>
    /\ shx_bytes = <<>>
    /\ shp_file = None
    /\ shx_file = None
    /\ stream_result = None
    /\ dbf_file = None
    /\ iter = None

\* FileHeader::parse(&mut Cursor::new(input))
ParseHeader ==
    /\ pc = "ready"
    /\ result' = [op |-> "FileHeader::parse", ret |-> FileHeader_parse(input, pos)]
    /\ pos' = result'.ret.pos
    /\ pc' = "parsed"
    /\ UNCHANGED <<overflow_checks, gen, input, prev>>
    /\ UNCHANGED file_vars

\* ShpFile::parse_file or ShxFile::parse_file on a file holding input
ParseFile ==
    /\ pc = "ready"
    /\ result' = [op |-> "parse_file", ret |-> parse_file(input)]
    /\ pos' = result'.ret.pos
    /\ pc' = "parsed"
    /\ UNCHANGED <<overflow_checks, gen, input, prev>>
    /\ UNCHANGED file_vars

NextHeader == ParseHeader \/ ParseFile

SpecHeader == InitHeader /\ [][NextHeader]_vars

----------------------------------------------------------------------------
(* Properties of the header codec, checked under SpecHeader *)

\* the fields as they stand in the bytes of the stream
MagicField == i32_from_BigEndian(SubSeq(input, 1, 4))
VersionField == i32_from_LittleEndian(SubSeq(input, 29, 32))

\* C16: FileHeader::parse returns an error whenever the big-endian i32 at
\* bytes 0-3 is not 9994 or the little-endian i32 at bytes 28-31 is not 1000;
\* the magic number is checked first, before any later field is read.
C16_MagicAndVersion ==
    Called("FileHeader::parse")
        => /\ (Len(input) >= 4 /\ MagicField # 9994)
                => result.ret.status = "err" /\ pos = 4
           /\ (Len(input) >= 32 /\ VersionField # 1000)
                => result.ret.status = "err"
           /\ (Len(input) >= 32 /\ MagicField = 9994 /\ VersionField # 1000)
                => pos = 32

\* a whole header with the right magic number and version 999 is refused once
\* the version is read
C16_Witness ==
    /\ Called("FileHeader::parse")
    /\ Len(input) >= 100 /\ MagicField = 9994 /\ VersionField = 999
    /\ result.ret.status = "err" /\ pos = 32

\* the f64 whose little-endian bytes start at byte offset at of the stream
F64Field(at) == f64_from_LittleEndian(SubSeq(input, at + 1, at + 8))

\* C17: on success FileHeader::parse, started at offset 0, leaves the stream at
\* offset 100 with file_length taken from bytes 24-27 (big-endian), shape_type
\* from bytes 32-35 (little-endian) and the bounding volume from bytes 36-99 as
\* eight little-endian f64 in the order x_min, y_min, x_max, y_max, z_min,
\* z_max, m_min, m_max; bytes 4-23 have no influence on the result.
C17_HeaderLayout ==
    (Called("FileHeader::parse") /\ result.ret.status = "ok")
        => /\ pos = 100
           /\ result.ret.header.file_length = i32_from_BigEndian(SubSeq(input, 25, 28))
           /\ result.ret.header.shape_type = i32_from_LittleEndian(SubSeq(input, 33, 36))
           /\ result.ret.header.bounding_box
                = [x_min |-> F64Field(36), y_min |-> F64Field(44),
                   x_max |-> F64Field(52), y_max |-> F64Field(60),
                   z_min |-> F64Field(68), z_max |-> F64Field(76),
                   m_min |-> F64Field(84), m_max |-> F64Field(92)]
           /\ result.ret
                = FileHeader_parse(Take(input, 4) \o [i \in 1..20 |-> 255 - input[4 + i]]
                                     \o SubSeq(input, 25, Len(input)), 0)

\* a header declaring -1 words, its unused bytes filled with 1..20, is decoded
C17_Witness ==
    /\ Called("FileHeader::parse") /\ result.ret.status = "ok"
    /\ pos = 100 /\ Len(input) = 100 + MaxTrailing
    /\ SubSeq(input, 5, 24) = Unused
    /\ result.ret.header.file_length = -1
    /\ result.ret.header.shape_type = 99
    /\ result.ret.header.bounding_box.m_max = HeaderBox[8]

\* C18: for every stream shorter than 100 bytes, one that ends inside the 20
\* skipped bytes included, FileHeader::parse returns an error and does not
\* abort; ShpFile::parse_file and ShxFile::parse_file reject a file shorter
\* than 100 bytes before attempting the header read.
C18_ShortHeader ==
    (result # None /\ pc = "parsed" /\ Len(input) < 100)
        => /\ result.ret.status = "err"
           /\ result.op = "parse_file" => pos = 0

\* a stream with the right magic number that ends inside the skipped bytes
C18_Witness ==
    /\ Called("FileHeader::parse")
    /\ Len(input) \in 5..23 /\ MagicField = 9994
    /\ result.ret.status = "err" /\ pos >= 24

----------------------------------------------------------------------------
(* The payloads once more, each behind a record header *)

\* Record::parse(&mut Cursor::new(header + input)): the payload as the content
\* of record 1, whose header declares the length of the whole payload
ParseRecord ==
    /\ pc = "ready"
    /\ prev = None
    /\ input' = write_i32_BigEndian(1) \o write_i32_BigEndian(Len(Payload(gen)) \div 2)
                  \o input
    /\ result' = Record_parse(input', 0, overflow_checks)
    /\ pos' = result'.pos
    /\ pc' = "record_parsed"
    /\ UNCHANGED <<overflow_checks, gen, prev>>
    /\ UNCHANGED file_vars

NextShape == Parse \/ Retag \/ ParseRecord

SpecShape == InitShape /\ [][NextShape]_vars

----------------------------------------------------------------------------
(* Further properties of the geometry codec, checked under SpecShape *)

\* C21: every shape with parts that Shape::parse returns satisfies the parts
\* invariant: parts is strictly ascending, its first element is 0, and every
\* element is a valid index into points.
C21_PartsInvariant ==
    (Returned /\ HasParts(CurTag))
        => /\ \A i \in 1..(Len(result.shape.parts) - 1) :
                  result.shape.parts[i] < result.shape.parts[i + 1]
           /\ Len(result.shape.parts) >= 1 => result.shape.parts[1] = 0
           /\ \A i \in 1..Len(result.shape.parts) :
                  result.shape.parts[i] \in 0..(Len(result.shape.points) - 1)

\* C22: a failed decode never yields a partly populated value: when the
\* stream ends inside the payload, Shape::parse and Record::parse return an
\* error (unless the program has aborted before the end was met), and a result
\* that is no success carries no shape, no record and no length.
C22_NoPartialValue ==
    (pc \in {"parsed", "record_parsed"})
        => /\ gen.drop > 0 => result.status # "ok"
           /\ (gen.drop > 0 /\ result.status # "panic") => result.status = "err"
           /\ result.status # "ok" => DOMAIN result = {"status", "pos"}
           /\ result.status = "ok" => pos <= Len(input)

\* a PolyLineZ payload that lost its last byte, behind a record header: the
\* decode failed at the end of the stream, inside the M values
C22_Witness ==
    /\ pc = "record_parsed" /\ gen.tag = STY_POLY_LINE_Z
    /\ gen.num_parts = 2 /\ gen.num_points = 2 /\ gen.drop = 1
    /\ result.status = "err" /\ pos >= Len(input) - 7

\* the range the two values of a written range decode to
RangeOf(pair) == [min |-> pair[1], max |-> pair[2]]

\* the number of bytes of the input that belong to the payload
PayloadEnd == Len(input) - Len(gen.extra)

\* C23: for the tags 13, 15, 18 and 31 Shape::parse reads the Z range and the
\* Z values and then always the M range and the M values (a payload that ends
\* behind the Z values is not decoded); for 23, 25 and 28 it reads the M range
\* and the M values only; for 3, 5 and 8 it reads neither and leaves the bytes
\* that follow the points unread.
C23_ZThenM ==
    /\ (Returned /\ HasZ(CurTag))
           => /\ result.shape.z_range = RangeOf(gen.z_range) /\ result.shape.z = gen.z
              /\ result.shape.m_range = RangeOf(gen.m_range) /\ result.shape.m = gen.m
              /\ pos = PayloadEnd
    /\ (Returned /\ HasMOnly(CurTag))
           => /\ result.shape.m_range = RangeOf(gen.m_range) /\ result.shape.m = gen.m
              /\ {"z", "z_range"} \cap DOMAIN result.shape = {}
              /\ pos = PayloadEnd
    /\ (Returned /\ CurTag \in {STY_POLY_LINE, STY_POLYGON, STY_MULTI_POINT})
           => /\ {"z", "z_range", "m", "m_range"} \cap DOMAIN result.shape = {}
              /\ pos = PayloadEnd
    /\ (Parsed /\ HasZ(CurTag) /\ gen.drop = 16 + 8 * Len(gen.m))
           => result.status # "ok"

\* a PolygonZ of two points followed by trailing bytes was decoded, its Z
\* and M values read and the trailing bytes left unread
C23_Witness ==
    /\ Returned /\ gen.extra = Garbage /\ gen.num_points = 2
    /\ CurTag = STY_POLYGON_Z
    /\ Len(result.shape.z) = 2 /\ Len(result.shape.m) = 2
    /\ pos < Len(input)

\* the payload declares a negative count that its tag makes Shape::parse read
NegativeCount ==
    \/ HasParts(CurTag) /\ gen.num_parts < 0
    \/ (HasParts(CurTag) \/ IsMultiPointType(CurTag)) /\ gen.num_points < 0

\* C29: when a payload declares a negative part count or point count,
\* Shape::parse returns an error: the casts `as usize` and the products
\* 4 * num_parts, 16 * num_points and 8 * num_points of the length computation
\* do not overflow, and no shape with a wrapped length is returned.
C29_NegativeCountIsError ==
    (Parsed /\ NegativeCount) => result.status = "err"

----------------------------------------------------------------------------
(* Further properties of the readers, checked under SpecFile *)

\* C24: in ShpFile::parse_stream the counter consumed equals the position of
\* the stream at the head of every iteration of the loop, for every shape
\* type, Point, PointM and PointZ included.
C24_ConsumedIsPosition ==
    stream_result # None
        => \A i \in 1..Len(stream_result.heads) :
               stream_result.heads[i].consumed = U(stream_result.heads[i].pos)

\* C27: for every header that FileHeader::parse accepts, ShxFile::num_records
\* computes (file_length as u64 * 2 - 100) / 8 without unsigned underflow or
\* overflow; a declared file_length below 50 words or a negative one yields a
\* record count of 0, not an abort and not a huge count.
C27_NumRecords ==
    Called("ShxFile::num_records")
        => /\ ~result.ret.panic
           /\ result.ret.val = IF shx_file.header.file_length >= 50
                               THEN U((2 * shx_file.header.file_length - 100) \div 8)
                               ELSE U(0)

\* C30: in ShpFile::record the index lookup precedes any access to the main
\* file: when ShxFile::record(id) returns None (id = 0, id > num_records, or
\* the index read fails), the main-file stream is neither sought nor read and
\* its position is unchanged.
C30_IndexLookupFirst ==
    (Called("ShpFile::record") /\ result.ret.shx.status = "None")
        => /\ result.ret.status = "None"
           /\ result.ret.io = <<>>
           /\ shp_file.pos = result.shp_before

\* after a lookup that left the main file behind a record, the entry of a
\* later id was sought in the index and could not be read
C30_Witness ==
    /\ Called("ShpFile::record") /\ result.ret.shx.status = "None"
    /\ result.id >= 1 /\ result.ret.shx.io # <<>>
    /\ result.shp_before > 100 /\ shp_file.pos = result.shp_before

----------------------------------------------------------------------------
(* ShpFile::parse_stream, one iteration of its loop at a time *)

\* the shape types of the main files the loop is tried on
StreamTags == {STY_NULL_SHAPE, STY_POINT, STY_POLY_LINE, STY_MULTI_PATCH}

\* what overwrites the file length the header declares: nothing, 0 words, the
\* 50 words of the header alone, or more words than the file holds
Declared == {<<>>, <<0>>, <<50>>, <<30000>>}

StreamGens ==
    UNION {
        {[shape_type |-> tag, records |-> [i \in 1..r |-> ReaderRecordGen(tag, i)],
          shp_drop |-> shp_drop, declared |-> declared] :
            shp_drop \in {0, 1}, declared \in Declared, r \in 0..MaxRecords} :
        tag \in StreamTags}

\* the main file of fg, its header declaring fg.declared words
StreamBytes(fg) ==
    IF fg.declared = <<>> THEN ShpBytes(fg)
    ELSE Overwrite(ShpBytes(fg), 24, write_i32_BigEndian(fg.declared[1]))

\* shpfile.rs 762-768: the header h was read; consumed starts at 100 and the
\* loop runs while consumed < file_length as usize * 2
parse_stream_start(h, oc) ==
    LET loop(limit) ==
            IF oc /\ limit.ovf THEN Panic(h.pos)
            ELSE [status |-> "loop", pos |-> h.pos, consumed |-> U(100),
                  limit |-> limit.val, records |-> <<>>]
    IN  IF h.status # "ok" THEN Err(h.pos)
        ELSE loop(umul(2, as_usize(h.header.file_length)))

\* faulty variant: the length of the record is not added to consumed
parse_stream_step_NoCount(s, st, oc) ==
    LET parsed(r) ==
            IF r.status # "ok" THEN [status |-> r.status, pos |-> r.pos]
            ELSE [st EXCEPT !.pos = r.pos, !.records = Append(@, r.record)]
    IN  IF ~ult(st.consumed, st.limit)
        THEN [status |-> "ok", pos |-> st.pos, records |-> st.records]
        ELSE parsed(Record_parse(s, st.pos, oc))

\* shpfile.rs 771-777: the test of the loop and, when it holds, one iteration
parse_stream_step(s, st, oc) ==
    LET push(r, c) ==
            IF oc /\ c.ovf THEN Panic(r.pos)
            ELSE [st EXCEPT !.pos = r.pos, !.consumed = c.val,
                            !.records = Append(@, r.record)]
        parsed(r) ==
            IF r.status # "ok" THEN [status |-> r.status, pos |-> r.pos]
            ELSE push(r, uadd(st.consumed, r.length))
    IN  IF ~ult(st.consumed, st.limit)
        THEN [status |-> "ok", pos |-> st.pos, records |-> st.records]
        ELSE parsed(Record_parse(s, st.pos, oc))

InitStream ==
    /\ overflow_checks \in BOOLEAN
    /\ gen \in StreamGens
    /\ shp_bytes = StreamBytes(gen)
    /\ shx_bytes = <<>>
    /\ shp_file = None
    /\ shx_file = None
    /\ stream_result = None
    /\ dbf_file = None
    /\ iter = None
    /\ result = None
    /\ pc = "closed"
    /\ input = <<>>
    /\ pos = 0
    /\ prev = None

\* ShpFile::parse_stream up to the head of its loop
StreamHeader ==
    /\ stream_result = None
    /\ stream_result' = parse_stream_start(FileHeader_parse(shp_bytes, 0), overflow_checks)
    /\ UNCHANGED <<overflow_checks, gen, input, pos, result, prev, pc,
                   shp_bytes, shx_bytes, shp_file, shx_file, dbf_file, iter>>

\* the test of the loop, and one iteration or the return
StreamIteration ==
    /\ stream_result.status = "loop"
    /\ stream_result' = parse_stream_step(shp_bytes, stream_result, overflow_checks)
    /\ UNCHANGED <<overflow_checks, gen, input, pos, result, prev, pc,
                   shp_bytes, shx_bytes, shp_file, shx_file, dbf_file, iter>>

NextStream == StreamHeader \/ StreamIteration

\* a step of the call is possible: it has not returned and the program has not
\* aborted. Every step changes stream_result, so this is ENABLED <<NextStream>>_vars
Running == stream_result = None \/ stream_result.status = "loop"

\* the call runs on, no step of it is put off for ever: WF_vars(NextStream)
\* with Running written for ENABLED <<NextStream>>_vars
StreamFair == []<>(~Running) \/ []<><<NextStream>>_vars

SpecStream == InitStream /\ [][NextStream]_vars /\ StreamFair

\* parse_stream has returned or the program has aborted
Done == stream_result.status \in {"ok", "err", "panic"}

\* the loop is at its head and its condition holds
Iterating ==
    /\ stream_result.status = "loop"
    /\ ult(stream_result.consumed, stream_result.limit)

\* the iteration went round with consumed at least 12 larger
Grown ==
    /\ stream_result'.status = "loop"
    /\ stream_result'.consumed.k = stream_result.consumed.k
    /\ stream_result'.consumed.v >= stream_result.consumed.v + 12

----------------------------------------------------------------------------
(* Further properties of the facade, checked under SpecReader *)

\* C26: once next() on a ShapefileRecordIterator has returned None, every
\* later next() on the same iterator returns None as well, although id grows
\* by one on every call, the calls included that returned None because the
\* record of that id could not be decoded while records with larger ids exist.
C26_NoneIsFinal ==
    [][(/\ Called("Iterator::next") /\ iter # None /\ iter.live /\ iter.count >= 1
        /\ result.ret.status = "None"
        /\ result' # result /\ result'.op = "Iterator::next")
           => result'.ret.status = "None"]_vars

\* C28: when the index entry of id holds a negative offset, ShpFile::record(shx,
\* id) returns None: `rec.offset as u64 * 2` neither overflows into an abort
\* nor gives a byte offset at which some other record is decoded and returned.
C28_NegativeOffset ==
    (/\ Called("ShpFile::record")
     /\ result.ret.shx.status = "Some" /\ result.ret.shx.val.offset < 0)
        => /\ result.ret.status = "None"
           /\ \A i \in 1..Len(result.ret.io) : result.ret.io[i].op # "read"

====
